---- MODULE Spec2Model ----
\* A model of the aipstack IPv4 reassembly engine (IpReassembly.h) and of the
\* TCP protocol engine (IpTcpProto.h, IpTcpProto_output.h).
EXTENDS Integers, Sequences, FiniteSets, TLC

\* ---------------------------------------------------------------------------
\* IPv4 reassembly: configuration and constants
\* ---------------------------------------------------------------------------

\* IpReassemblyOptions (the model instantiates the service with these values).
MaxReassEntrys == 1
MaxReassSize == 1880
MaxReassHoles == 2
MaxReassTimeSeconds == 4

\* sizeof(HoleDescriptor): two raw uint16 fields.
HoleDescriptorSize == 4
\* TypeMax<uint16_t>, the null link of hole lists and the free-entry mark.
ReassNullLink == 65535
ReassBufferSize == MaxReassSize + HoleDescriptorSize

\* The platform clock: TimeType is an unsigned integer that wraps at TimeMod,
\* TimeFreq ticks make one second.
TimeMod == 10
TimeFreq == 1
WorkingTimeSpanTicks == TimeMod \div 2
ReassMaxExpirationTicks == MaxReassTimeSeconds * TimeFreq
PurgeTimerInterval == WorkingTimeSpanTicks

TimeAdd(a, b) == (a + b) % TimeMod
TimeSub(a, b) == (a - b + TimeMod) % TimeMod

MinValue(a, b) == IF a < b THEN a ELSE b
MaxValue(a, b) == IF a > b THEN a ELSE b

\* ---------------------------------------------------------------------------
\* Inputs of the reassembly model
\* ---------------------------------------------------------------------------

\* (fragment_offset, dgram.tot_len, more_fragments) of the fragments fed.
Frag(o, l, m) == [off |-> o, len |-> l, mf |-> m]
\* Fragments of one datagram of 1880 payload bytes.
DgramLen == 1480 + 400
DgramFrags ==
    { Frag(0, 1480, TRUE), Frag(1480, 400, FALSE),
      Frag(0, 8, TRUE), Frag(8, 1472, TRUE),
      Frag(10, 6, TRUE), Frag(24, 8, TRUE) }
\* Fragments that do not belong to that datagram.
OtherFrags ==
    { Frag(1200, 400, FALSE), Frag(1000, 400, FALSE), Frag(1480, 408, FALSE),
      Frag(1884, 8, TRUE), Frag(8, 0, TRUE) }
Frags == DgramFrags \cup OtherFrags
\* Two fragments of a datagram of 16 payload bytes.
KeyFrags == { Frag(0, 8, TRUE), Frag(8, 8, FALSE) }
AllFrags == Frags \cup KeyFrags

\* IP identification, addresses, protocol numbers and TTLs of the packets fed.
Idents == {1, 2}
Addrs == {1, 2}
Protos == {6, 17}
Ttls == {0, 64}
KeyTtls == {0, 1, 64}
\* The datagram the fragment menu DgramFrags is cut from.
Key0 == [ident |-> 1, src |-> 1, dst |-> 2, proto |-> 6]
Keys == { Key0,
          [ident |-> 2, src |-> 1, dst |-> 2, proto |-> 6],
          [ident |-> 1, src |-> 2, dst |-> 2, proto |-> 6],
          [ident |-> 1, src |-> 1, dst |-> 1, proto |-> 6],
          [ident |-> 1, src |-> 1, dst |-> 2, proto |-> 17] }

\* ---------------------------------------------------------------------------
\* The reassembly buffer
\* ---------------------------------------------------------------------------

\* ReassEntry::data is an array of ReassBufferSize bytes. Every write of the
\* code starts and ends at an offset of CutPoints (fragment bounds and the two
\* fields of hole descriptors at offset 0 or at a fragment end), so the bytes
\* between two neighbouring cut points always hold the same kind of content:
\* the array is kept as one value per such run of bytes, indexed by the offset
\* at which the run starts.
HolePositions ==
    {0} \cup {f.off + f.len : f \in {g \in AllFrags : g.off + g.len <= MaxReassSize}}
CutPoints ==
    ({0, ReassBufferSize} \cup {f.off : f \in AllFrags}
       \cup {f.off + f.len : f \in AllFrags}
       \cup {h + 2 : h \in HolePositions} \cup {h + 4 : h \in HolePositions})
    \cap (0..ReassBufferSize)
Cells == CutPoints \ {ReassBufferSize}
CellsIn(lo, hi) == {c \in Cells : lo <= c /\ c < hi}

\* Contents of a run of bytes: not written by this use of the entry ("U"), payload bytes of the
\* datagram with content id v ("D"), or the bytes of the HoleSize ("HS") or
\* NextHoleOffset ("NX") field, holding v, of the descriptor at offset h.
Uninit == [t |-> "U", h |-> 0, v |-> 0]
Payload(id) == [t |-> "D", h |-> 0, v |-> id]
Field(tag, h, val) == [t |-> tag, h |-> h, v |-> val]

\* What a read of a uint16 field returns when its bytes are not an intact
\* field of a descriptor written at that offset (the bytes read are then
\* payload or stale bytes).
Indeterminate == 0 - 1

WriteRange(data, lo, hi, val) ==
    [c \in Cells |-> IF lo <= c /\ c < hi THEN val ELSE data[c]]

ReadField(data, tag, h, lo) ==
    LET cs == CellsIn(lo, lo + 2)
    IN IF cs # {} /\ \A c \in cs : data[c].t = tag /\ data[c].h = h
       THEN data[CHOOSE c \in cs : TRUE].v
       ELSE Indeterminate

\* HoleDescriptor accessors: HoleSize at offset 0, NextHoleOffset at offset 2.
GetHoleSize(data, h) == ReadField(data, "HS", h, h)
GetNextHoleOffset(data, h) == ReadField(data, "NX", h, h + 2)
SetHoleSize(data, h, val) == WriteRange(data, h, h + 2, Field("HS", h, val))
SetNextHoleOffset(data, h, val) == WriteRange(data, h + 2, h + 4, Field("NX", h, val))

\* Ip4Header fields kept from the base header. TtlProto is one 16-bit field:
\* the TTL in its high byte and the protocol in its low byte.
MakeTtlProto(ttl, proto) == ttl * 256 + proto
MakeHeader(ident, src, dst, ttl, proto) ==
    [Ident |-> ident, SrcAddr |-> src, DstAddr |-> dst,
     TtlProto |-> MakeTtlProto(ttl, proto)]

VARIABLES
    now,              \* platform().getTime()
    m_timer,          \* expiry time of the purge timer
    m_reass_packets,  \* the ReassEntry array
    written,          \* history: per entry and run of bytes, how many fragments
                      \* wrote it since the entry was allocated (2 = two or more)
    reass_last,       \* history: the last reassembleIp4 call and what it returned
    only_dgram,       \* history: every fragment fed so far is one of DgramFrags
                      \* with the addresses of Key0
    reass_life        \* history: per live entry the ticks left until its
                      \* expiration_time (-1 once it has passed), and the
                      \* entries that the last step freed as expired

VARIABLES
    pcbs,                   \* m_pcbs: the TcpPcb array
    cons,                   \* the application's TcpConnection objects
    m_listener,             \* the application's TcpListener
    m_unrefed_pcbs_list,    \* list of PCBs not referenced by a connection
    m_pcb_index_active,     \* index of PCBs that are not CLOSED or TIME_WAIT
    m_pcb_index_timewait,   \* index of PCBs in TIME_WAIT
    m_current_pcb,          \* PCB whose input is being processed, or PcbNull
    m_next_ephemeral_port,  \* where get_ephemeral_port resumes
    tcp_cb,                 \* the user callback in progress, if any
    tcp_fault,              \* history: a precondition assertion was violated
    unref_age,              \* history: the unreferenced PCBs, the one that
                            \* became so or was refreshed last first
    abrt_after,             \* per PCB, the time its AbrtTimer was set to expire
                            \* after (0 while the timer is not set)
    cc,                     \* one PCB and its TcpConnection as congestion
                            \* control sees them (snd_mss, cwnd, ssthresh, ...)
    lq,                     \* a QueuedListener and its ListenQueueEntry array
    snd,                    \* one PCB and its TcpConnection as the output
                            \* code sees them (send buffer, windows, RTT test)
    heap                    \* a LinkedHeap and the nodes of its entries

reass_vars == <<now, m_timer, m_reass_packets, written, reass_last, only_dgram,
                reass_life>>
tcp_vars == <<pcbs, cons, m_listener, m_unrefed_pcbs_list, m_pcb_index_active,
              m_pcb_index_timewait, m_current_pcb, m_next_ephemeral_port,
              tcp_cb, tcp_fault, unref_age, abrt_after, cc, lq, snd, heap>>
vars == <<now, m_timer, m_reass_packets, written, reass_last, only_dgram,
          reass_life,
          pcbs, cons, m_listener, m_unrefed_pcbs_list, m_pcb_index_active,
          m_pcb_index_timewait, m_current_pcb, m_next_ephemeral_port,
          tcp_cb, tcp_fault, unref_age, abrt_after, cc, lq, snd, heap>>

\* ---------------------------------------------------------------------------
\* TCP: configuration and initial state
\* ---------------------------------------------------------------------------

\* IpTcpProtoOptions (the model instantiates the service with these values).
NumTcpPcbs == 2
EphemeralPortFirst == 1
EphemeralPortLast == 2

\* The application owns NumCons TcpConnection objects and one TcpListener.
NumCons == 2
Pcbs == 1..NumTcpPcbs
Cons == 1..NumCons
PcbNull == 0
ConNull == 0

\* Sequence numbers are SeqType values; the model keeps SeqBits bits of them.
SeqBits == 4
SeqMod == 2 ^ SeqBits
seq_add(a, b) == (a + b) % SeqMod
seq_diff(a, b) == (a - b + SeqMod) % SeqMod
seq_lt2(a, b) == seq_diff(a, b) >= SeqMod \div 2

\* A CLOSED PCB: state CLOSED, no connection, no timer set (pcb_assert_closed).
\* out_after is the time the OutputTimer was set to expire after (0 while it
\* is not set).
\* Its other fields are assigned by create_connection and listen_input before
\* they are read again; the model holds these values in their place.
ClosedPcb ==
    [state |-> "CLOSED", con |-> ConNull, lis |-> FALSE, flags |-> {},
     snd_una |-> 0, snd_nxt |-> 0, rcv_nxt |-> 0, key |-> 0, tim |-> {},
     out_after |-> 0]

NoConnection ==
    [pcb |-> PcbNull, snd_buf |-> 0, snd_buf_cur |-> 0, snd_wnd |-> 0, queued |-> 0]

\* aborted is history: pcb_abort has closed the PCB of the callback since the
\* callback was called.
NoCallback ==
    [kind |-> "none", pcb |-> PcbNull, closing |-> FALSE, after |-> "none",
     aborted |-> FALSE]

\* What a handler lets the outside see: the entry point that ran (op), the
\* IpErr it returned (ret), the port that get_ephemeral_port returned (port),
\* the PCB that allocate_pcb returned (alloc), the calls of pcb_abort
\* (aborts), the RSTs, retransmissions and window probes handed to the IP
\* layer (sent), and the retransmission timeout that the RtxTimer was
\* restarted with (rto, 0 if it was not), and the round-trip-time measurement
\* as pcb_output_active left it (rtt: RTT_PENDING and rtt_test_seq).
NoRtt == [pending |-> FALSE, test_seq |-> 0]
NoObs ==
    [op |-> "none", ret |-> "none", port |-> 0, alloc |-> PcbNull,
     aborts |-> <<>>, sent |-> <<>>, rto |-> 0, rtt |-> NoRtt]

\* The IpTcpProto constructor; every TcpPcb constructor prepends its PCB to
\* the list of unreferenced PCBs.
\* The PCB of the congestion-control model before create_connection: CLOSED,
\* with no TcpConnection. sent is history: the bytes sent so far, which the
\* model limits to MaxCcSent. rtx is what the handler that ran last
\* retransmitted: the sequence number of each segment, in order.
MaxCcSent == 12
CcClosed ==
    [state |-> "CLOSED", con |-> FALSE, snd_mss |-> 0, cwnd |-> 0, ssthresh |-> 0,
     cwnd_acked |-> 0, flags |-> {}, num_dupack |-> 0, recover |-> 0,
     snd_una |-> 0, snd_nxt |-> 0, fault |-> FALSE, sent |-> 0,
                 rtx |-> <<>>]

\* The PCB and the TcpConnection whose output is followed segment by
\* segment, before the connection is opened. pcb is the TcpPcb; snd_buf,
\* snd_buf_cur and snd_psh_index are the lengths and the index kept in the
\* TcpConnection; rtt is RTT_PENDING with rtt_test_seq. The rest is history:
\* acked is the number of data bytes acknowledged so far; tx counts, up to
\* 2, the transmissions of each byte that the application has queued and
\* of the FIN (numbered from 0 in the order of their sequence numbers) and
\* syn_tx those of the SYN; segs are the segments that the handler that ran
\* last sent, last is how its output ended, and sample tells whether it
\* completed a round-trip-time measurement and of what.
MaxOutQueued == 3
OutPositions == 0..MaxOutQueued
NoOutput == [mode |-> "none", failed |-> FALSE, rem_wnd |-> 0, full_wnd |-> 0]
OutClosed ==
    [pcb |-> ClosedPcb, snd_buf |-> 0, snd_buf_cur |-> 0, snd_psh_index |-> 0,
     snd_wnd |-> 0, rtt |-> NoRtt, acked |-> 0,
     tx |-> [i \in OutPositions |-> 0], syn_tx |-> 0,
     segs |-> <<>>, last |-> NoOutput, sample |-> "none"]

\* A LinkedHeap after init(), with the LinkedHeapNode objects of the entries
\* that can be put into it. SizeType is an unsigned type of HeapSizeBits
\* bits. init() sets m_root only: m_last, m_count and m_level_bit have no
\* value while m_root is null, and neither have the fields of a node that is
\* not in the heap (HeapUndefined; the code writes each before it reads it).
\* key is the value Compare::compareEntries orders the entries by; in_heap,
\* the entries that are in the heap, and heap_fault, whether an assertion of
\* the code has failed, and last_op, the call made last, are history.
\* The entries of HeapFreeNodes come and go in any order with any key. Those
\* of HeapBulk, all of the key HeapBulkKey, are put in one after the other
\* while no other entry is in the heap, and stay while the first
\* MaxHeapOnBulk entries of HeapFreeNodes come and go in a heap that is
\* deep enough for insert and remove to climb from the last node.
MaxHeapNodes == 5
MaxHeapKey == 2
HeapBulkNodes == 16
MaxHeapOnBulk == 2
HeapBulkKey == 1
HeapSizeBits == 5
HeapNull == 0
HeapUndefined == -1
HeapFreeNodes == 1..MaxHeapNodes
HeapBulk == (MaxHeapNodes + 1)..(MaxHeapNodes + HeapBulkNodes)
HeapNodes == HeapFreeNodes \cup HeapBulk
HeapKeys == 0..MaxHeapKey
SizeTypeMod == 2 ^ HeapSizeBits
SizeTypeMax == SizeTypeMod - 1
NodeOutside ==
    [parent |-> HeapUndefined, link |-> <<HeapUndefined, HeapUndefined>>,
     key |-> 0]
HeapInit ==
    [m_root |-> HeapNull, m_last |-> HeapUndefined, m_count |-> HeapUndefined,
     m_level_bit |-> HeapUndefined, node |-> [n \in HeapNodes |-> NodeOutside],
     in_heap |-> {}, heap_fault |-> FALSE, last_op |-> "init"]

\* A QueuedListener after construction, before startListening: it does not
\* listen, no timer is set, and the entries of the array given to it are
\* TcpConnection objects in the init state. m_ready and m_time of an entry
\* have no value before its accept_connection; none is read before it.
\* order, fresh, ties and aged are history: the occupied entries, the one
\* accepted first first; the entries accepted since the clock advanced last;
\* the pairs of occupied entries that were accepted at the same time; the
\* occupied entries that were accepted WorkingTimeSpanTicks ago or earlier.
\* offers is what the handler that ran last offered to the user: the entries
\* published in m_queued_to_accept, in order.
QueueSize == 2
QueueTimeout == 2
RxBufferSize == 1
Slots == 1..QueueSize
SlotNull == 0
InitEntry == [init |-> TRUE, m_ready |-> FALSE, m_time |-> 0, rx_len |-> 0]
NoTimeout == [set |-> FALSE, at |-> 0]
NoQueue ==
    [listening |-> FALSE, m_queue |-> [i \in Slots |-> InitEntry],
     m_queued_to_accept |-> SlotNull, TimeoutTimer |-> NoTimeout,
     DequeueTimer |-> FALSE, fault |-> FALSE, order |-> <<>>, fresh |-> {},
     ties |-> {}, aged |-> {}, offers |-> <<>>]

InitTcp ==
    /\ pcbs = [p \in Pcbs |-> ClosedPcb]
    /\ cons = [c \in Cons |-> NoConnection]
    /\ m_listener = [m_listening |-> FALSE, m_accept_pcb |-> PcbNull, m_num_pcbs |-> 0]
    /\ m_unrefed_pcbs_list = [i \in 1..NumTcpPcbs |-> NumTcpPcbs + 1 - i]
    /\ m_pcb_index_active = {}
    /\ m_pcb_index_timewait = {}
    /\ m_current_pcb = PcbNull
    /\ m_next_ephemeral_port = EphemeralPortFirst
    /\ tcp_cb = NoCallback
    /\ tcp_fault = FALSE
    /\ unref_age = [i \in 1..NumTcpPcbs |-> NumTcpPcbs + 1 - i]
    /\ abrt_after = [p \in Pcbs |-> 0]
    /\ cc = CcClosed
    /\ lq = NoQueue
    /\ snd = OutClosed
    /\ heap = HeapInit

Entries == 1..MaxReassEntrys

\* ---------------------------------------------------------------------------
\* IpReassembly: helpers
\* ---------------------------------------------------------------------------

hole_offset_valid(hole_offset) == hole_offset >= 0 /\ hole_offset <= MaxReassSize

\* reass_link_prev: make the hole at prev_hole_offset (or the entry, when there
\* is none) point to hole_offset. Works on [data, first].
reass_link_prev(w, prev_hole_offset, hole_offset) ==
    IF prev_hole_offset = ReassNullLink
    THEN [w EXCEPT !.first = hole_offset]
    ELSE [w EXCEPT !.data = SetNextHoleOffset(w.data, prev_hole_offset, hole_offset)]

\* Variant: the two times are compared as plain numbers.
EntryExpired_NoWrap(expiration_time, t) == expiration_time < t

\* The expiry test of find_reass_entry, in wrapping TimeType arithmetic.
EntryExpired(expiration_time, t) ==
    TimeSub(expiration_time, t) > ReassMaxExpirationTicks

\* The match test of find_reass_entry. The last conjunct of the code is
\* std::uint8_t(reass_hdr.get(Ip4Header::TtlProto()) == proto): the whole
\* 16-bit TtlProto field is compared with the 8-bit protocol number.
EntryMatches(hdr, ident, src_addr, dst_addr, proto) ==
    /\ hdr.Ident = ident
    /\ hdr.SrcAddr = src_addr
    /\ hdr.DstAddr = dst_addr
    /\ hdr.TtlProto = proto

\* find_reass_entry, first effect: every live entry that has expired is freed.
PurgeExpired(pk, t) ==
    [i \in Entries |->
        IF pk[i].first_hole_offset # ReassNullLink /\ EntryExpired(pk[i].expiration_time, t)
        THEN [pk[i] EXCEPT !.first_hole_offset = ReassNullLink]
        ELSE pk[i]]

\* find_reass_entry, result: the last live, unexpired entry that matches, or 0
\* for nullptr (the loop does not stop at the first match).
find_reass_entry(pk, t, ident, src_addr, dst_addr, proto) ==
    LET m == {i \in Entries :
                /\ pk[i].first_hole_offset # ReassNullLink
                /\ ~EntryExpired(pk[i].expiration_time, t)
                /\ EntryMatches(pk[i].header, ident, src_addr, dst_addr, proto)}
    IN IF m = {} THEN 0 ELSE CHOOSE i \in m : \A j \in m : j <= i

\* alloc_reass_entry, the entry chosen: the first free one, else the first
\* of those with the least remaining lifetime. Run on the purged array.
RECURSIVE AllocScan(_, _, _, _)
AllocScan(pk, future, i, result) ==
    IF i > MaxReassEntrys THEN result
    ELSE IF pk[i].first_hole_offset = ReassNullLink THEN i
    ELSE IF result = 0 \/ TimeSub(future, pk[i].expiration_time)
                            > TimeSub(future, pk[result].expiration_time)
         THEN AllocScan(pk, future, i + 1, i)
         ELSE AllocScan(pk, future, i + 1, result)

alloc_reass_entry(pk, t) == AllocScan(pk, TimeAdd(t, ReassMaxExpirationTicks), 1, 0)

\* alloc_reass_entry, the expiration time given to the entry.
AllocExpiration(t, ttl) ==
    TimeAdd(t, MinValue(ttl, MaxReassTimeSeconds) * TimeFreq)

\* The entry as reassembleIp4 sets it up after allocation: the header copied,
\* no data length, one hole from 0 to ReassBufferSize. The rest of the buffer
\* keeps whatever bytes the previous use of the entry left there: they are
\* bytes this use of the entry has not written, "U" like those of a buffer
\* never used (a read of them as a descriptor field gives Indeterminate).
\* Variant: the initial hole covers the data area only, not the room for the
\* last descriptor.
InitialHole_DataAreaOnly(data) ==
    SetNextHoleOffset(SetHoleSize(data, 0, MaxReassSize), 0, ReassNullLink)

InitialHole(data) ==
    SetNextHoleOffset(SetHoleSize(data, 0, ReassBufferSize), 0, ReassNullLink)

NewEntry(old, t, ttl, hdr) ==
    [first_hole_offset |-> 0,
     data_length |-> 0,
     expiration_time |-> AllocExpiration(t, ttl),
     header |-> hdr,
     data |-> InitialHole([c \in Cells |-> Uninit])]

\* "Verify that the fragment fits into the buffer."
FragmentFits(fragment_offset, tot_len) ==
    ~(fragment_offset > MaxReassSize \/ tot_len > MaxReassSize - fragment_offset)

\* The last-fragment checks made before the holes are walked.
LastFragmentConsistent(data_length, more_fragments, fragment_end) ==
    IF ~more_fragments
    THEN ~(data_length # 0 /\ fragment_end # data_length)
    ELSE ~(data_length # 0 /\ fragment_end > data_length)

\* "If the fragment does not overlap with the hole, skip the hole."
SkipsHole(fragment_offset, fragment_end, hole_offset, hole_end) ==
    fragment_offset >= hole_end \/ fragment_end <= hole_offset

\* "If this is the last fragment, sanity check that the hole offset is not
\* greater than the end of this fragment; this would mean that some data was
\* received beyond the end."
\* Variant: a last fragment is not checked against the holes.
DataBeyondEnd_Never(more_fragments, hole_offset, hole_end, fragment_end) == FALSE

DataBeyondEnd_HoleEnd(more_fragments, hole_offset, hole_end, fragment_end) ==
    ~more_fragments /\ hole_end > fragment_end

DataBeyondEnd(more_fragments, hole_offset, hole_end, fragment_end) ==
    ~more_fragments /\ hole_offset > fragment_end

\* "Sanity check hole size."
\* Variant: no hole is too small.
HoleTooSmall_Never(new_hole_size) == FALSE

HoleTooSmall(new_hole_size) == new_hole_size < HoleDescriptorSize

\* "If there are too many holes, invalidate."
TooManyHoles_OffByOne(num_holes) == num_holes > MaxReassHoles + 1

TooManyHoles(num_holes) == num_holes > MaxReassHoles

\* The completion test: the last fragment was seen and no hole starts before
\* data_length.
ReassemblyComplete_LengthOnly(data_length, first_hole_offset) ==
    ~(data_length = 0)

ReassemblyComplete(data_length, first_hole_offset) ==
    ~(data_length = 0 \/ first_hole_offset < data_length)

\* "Copy the fragment data into the reassembly buffer": the payload bytes of
\* the datagram with content id go to [fragment_offset, fragment_end).
CopyFragment_AtZero(data, fragment_offset, fragment_end, id) ==
    WriteRange(data, 0, fragment_end - fragment_offset, Payload(id))

CopyFragment(data, fragment_offset, fragment_end, id) ==
    WriteRange(data, fragment_offset, fragment_end, Payload(id))

\* The hole loop of reassembleIp4 works on the walk state
\* w = [data, first, prev, hole, num, st]: the buffer, first_hole_offset,
\* prev_hole_offset, hole_offset, num_holes, and st, which becomes "inval" at
\* a goto invalidate_reass, "fault" where an assertion fails, "done" when the
\* loop is left at its end.

\* "The fragment overlaps with the hole ... Create a new hole on the left."
LeftHole(w, hole_offset, fragment_offset) ==
    [w EXCEPT !.data = SetHoleSize(w.data, hole_offset, fragment_offset - hole_offset),
              !.prev = hole_offset,
              !.num = (w.num + 1) % 256]

\* "Create a new hole on the right."
RightHole(w, fragment_end, hole_end) ==
    [reass_link_prev([w EXCEPT !.data = SetHoleSize(w.data, fragment_end,
                                                    hole_end - fragment_end)],
                     w.prev, fragment_end)
     EXCEPT !.prev = fragment_end, !.num = (w.num + 1) % 256]

\* "Link the previous hole to the next hole" and "advance to the next hole".
LinkNext(w, next_hole_offset) ==
    [reass_link_prev(w, w.prev, next_hole_offset) EXCEPT !.hole = next_hole_offset]

\* The overlapping case of the loop body: the hole is dismantled and what is
\* left of it on either side of the fragment becomes a new hole.
SplitHole(w, hole_offset, hole_end, next_hole_offset, fragment_offset, fragment_end) ==
    IF fragment_offset > hole_offset /\ HoleTooSmall(fragment_offset - hole_offset)
    THEN [w EXCEPT !.st = "inval"]
    ELSE IF fragment_offset > hole_offset
    THEN IF fragment_end < hole_end /\ HoleTooSmall(hole_end - fragment_end)
         THEN [LeftHole(w, hole_offset, fragment_offset) EXCEPT !.st = "inval"]
         ELSE IF fragment_end < hole_end
         THEN LinkNext(RightHole(LeftHole(w, hole_offset, fragment_offset),
                                 fragment_end, hole_end), next_hole_offset)
         ELSE LinkNext(LeftHole(w, hole_offset, fragment_offset), next_hole_offset)
    ELSE IF fragment_end < hole_end /\ HoleTooSmall(hole_end - fragment_end)
         THEN [w EXCEPT !.st = "inval"]
         ELSE IF fragment_end < hole_end
         THEN LinkNext(RightHole(w, fragment_end, hole_end), next_hole_offset)
         ELSE LinkNext(w, next_hole_offset)

\* One iteration of the loop, given the two fields read from the descriptor
\* of the hole at w.hole.
HoleStepAt(w, hole_size, next_hole_offset, fragment_offset, fragment_end,
           more_fragments) ==
    IF \/ ~hole_offset_valid(w.hole)
       \/ ~(w.prev = ReassNullLink \/ hole_offset_valid(w.prev))
       \/ hole_size = Indeterminate \/ next_hole_offset = Indeterminate
       \/ hole_size > ReassBufferSize - w.hole
    THEN [w EXCEPT !.st = "fault"]
    ELSE IF DataBeyondEnd(more_fragments, w.hole, w.hole + hole_size, fragment_end)
    THEN [w EXCEPT !.st = "inval"]
    ELSE IF SkipsHole(fragment_offset, fragment_end, w.hole, w.hole + hole_size)
    THEN [w EXCEPT !.prev = w.hole, !.hole = next_hole_offset,
                   !.num = (w.num + 1) % 256]
    ELSE SplitHole(w, w.hole, w.hole + hole_size, next_hole_offset,
                   fragment_offset, fragment_end)

HoleStep(w, fragment_offset, fragment_end, more_fragments) ==
    HoleStepAt(w, GetHoleSize(w.data, w.hole), GetNextHoleOffset(w.data, w.hole),
               fragment_offset, fragment_end, more_fragments)

\* The do-while loop over the holes. A list that does not end within as many
\* steps as the buffer has runs of bytes is cyclic: the code would not return.
WalkFuel == Cardinality(Cells) + 1

RECURSIVE HoleWalk(_, _, _, _, _)
HoleWalkOn(s, fragment_offset, fragment_end, more_fragments, fuel) ==
    IF s.st # "walk" THEN s
    ELSE IF s.hole = ReassNullLink THEN [s EXCEPT !.st = "done"]
    ELSE HoleWalk(s, fragment_offset, fragment_end, more_fragments, fuel - 1)

HoleWalk(w, fragment_offset, fragment_end, more_fragments, fuel) ==
    IF fuel = 0 THEN [w EXCEPT !.st = "fault"]
    ELSE HoleWalkOn(HoleStep(w, fragment_offset, fragment_end, more_fragments),
                    fragment_offset, fragment_end, more_fragments, fuel)

\* ---------------------------------------------------------------------------
\* IpReassembly: reassembleIp4
\* ---------------------------------------------------------------------------

\* The content id of the payload bytes of datagram k.
KeyId(k) == k.ident * 1000 + k.src * 100 + k.dst * 10 + (IF k.proto = 6 THEN 0 ELSE 1)

Bump(n) == IF n >= 2 THEN 2 ELSE n + 1

\* History: the fragment [fragment_offset, fragment_end) was copied into entry idx.
MarkWritten(wr, idx, fragment_offset, fragment_end) ==
    [wr EXCEPT ![idx] =
        [c \in Cells |-> IF fragment_offset <= c /\ c < fragment_end
                         THEN Bump(wr[idx][c]) ELSE wr[idx][c]]]

\* invalidate_reass, and the freeing of a completed entry.
FreeEntry(e) == [e EXCEPT !.first_hole_offset = ReassNullLink]

\* What a call of reassembleIp4 gives: the new entry array pk and write
\* history wr, the return value ret, the length len of the datagram handed
\* back in dgram, and how the call went: idx the entry used, found whether
\* find_reass_entry returned it, inval whether the call left through
\* invalidate_reass, fault whether an assertion of the code failed, num the
\* value of num_holes when the hole loop was left.
CallResult(pk, wr, ret, len, idx, found, inval, fault, num) ==
    [pk |-> pk, wr |-> wr, ret |-> ret, len |-> len, idx |-> idx,
     found |-> found, inval |-> inval, fault |-> fault, num |-> num]

\* reassembleIp4 from the copy of the fragment on: the hole count and the
\* completion test decide between keeping, invalidating and handing back.
reass_finish(pk, wr, idx, found, reass, num, tot_len) ==
    IF ~ReassemblyComplete(reass.data_length, reass.first_hole_offset)
    THEN IF TooManyHoles(num)
         THEN CallResult([pk EXCEPT ![idx] = FreeEntry(reass)], wr, FALSE, tot_len,
                         idx, found, TRUE, FALSE, num)
         ELSE CallResult([pk EXCEPT ![idx] = reass], wr, FALSE, tot_len,
                         idx, found, FALSE, FALSE, num)
    ELSE CallResult([pk EXCEPT ![idx] = FreeEntry(reass)], wr, TRUE, reass.data_length,
                    idx, found, FALSE,
                    \/ reass.first_hole_offset # reass.data_length
                    \/ GetHoleSize(reass.data, reass.first_hole_offset)
                           # ReassBufferSize - reass.first_hole_offset
                    \/ GetNextHoleOffset(reass.data, reass.first_hole_offset)
                           # ReassNullLink,
                    num)

\* reassembleIp4 after the hole loop, whose outcome is walk.
reass_after_walk(pk, wr, idx, found, reass, walk, k, fragment_offset, fragment_end,
                 tot_len) ==
    IF walk.st # "done" \/ walk.first = ReassNullLink
    THEN CallResult([pk EXCEPT ![idx] = FreeEntry([reass EXCEPT !.data = walk.data])],
                    wr, FALSE, tot_len, idx, found, TRUE, walk.st # "inval", walk.num)
    ELSE reass_finish(pk, MarkWritten(wr, idx, fragment_offset, fragment_end),
                      idx, found,
                      [reass EXCEPT
                          !.first_hole_offset = walk.first,
                          !.data = CopyFragment(walk.data, fragment_offset,
                                                fragment_end, KeyId(k))],
                      walk.num, tot_len)

\* "Remember the data_length" of a last fragment.
WithDataLength(reass, more_fragments, fragment_end) ==
    IF more_fragments THEN reass ELSE [reass EXCEPT !.data_length = fragment_end]

StartWalk(reass) ==
    [data |-> reass.data, first |-> reass.first_hole_offset,
     prev |-> ReassNullLink, hole |-> reass.first_hole_offset,
     num |-> 0, st |-> "walk"]

\* reassembleIp4 from the size and last-fragment checks on, for the entry
\* reass at index idx.
reass_process(pk, wr, idx, found, reass, k, more_fragments, fragment_offset, tot_len) ==
    IF \/ ~FragmentFits(fragment_offset, tot_len)
       \/ ~LastFragmentConsistent(reass.data_length, more_fragments,
                                  fragment_offset + tot_len)
    THEN CallResult([pk EXCEPT ![idx] = FreeEntry(reass)], wr, FALSE, tot_len,
                    idx, found, TRUE, FALSE, 0)
    ELSE reass_after_walk(pk, wr, idx, found,
                          WithDataLength(reass, more_fragments, fragment_offset + tot_len),
                          HoleWalk(StartWalk(reass), fragment_offset,
                                   fragment_offset + tot_len, more_fragments, WalkFuel),
                          k, fragment_offset, fragment_offset + tot_len, tot_len)

\* reassembleIp4 when find_reass_entry gave nullptr: the entry idx chosen by
\* alloc_reass_entry is set up for the datagram.
reass_allocated(pk, wr, idx, t, k, ttl, more_fragments, fragment_offset, tot_len) ==
    reass_process(pk, [wr EXCEPT ![idx] = [c \in Cells |-> 0]], idx, FALSE,
                  NewEntry(pk[idx], t, ttl,
                           MakeHeader(k.ident, k.src, k.dst, ttl, k.proto)),
                  k, more_fragments, fragment_offset, tot_len)

\* reassembleIp4 after find_reass_entry, which purged the array (pk) and
\* returned the entry at index hit, 0 for nullptr.
reass_found(pk, wr, hit, t, k, ttl, more_fragments, fragment_offset, tot_len) ==
    IF hit # 0
    THEN reass_process(pk, wr, hit, TRUE, pk[hit], k, more_fragments,
                       fragment_offset, tot_len)
    ELSE reass_allocated(pk, wr, alloc_reass_entry(pk, t), t, k, ttl,
                         more_fragments, fragment_offset, tot_len)

\* reassembleIp4, as a function of the entry array pk, the write history wr
\* and the time t.
reassembleIp4(pk, wr, t, k, ttl, more_fragments, fragment_offset, tot_len) ==
    IF tot_len = 0
    THEN CallResult(pk, wr, FALSE, tot_len, 0, FALSE, FALSE, FALSE, 0)
    ELSE reass_found(PurgeExpired(pk, t), wr,
                     find_reass_entry(PurgeExpired(pk, t), t, k.ident, k.src, k.dst,
                                      k.proto),
                     t, k, ttl, more_fragments, fragment_offset, tot_len)

\* ---------------------------------------------------------------------------
\* IpReassembly: the state machine
\* ---------------------------------------------------------------------------

NoCall == [op |-> "none", key |-> Key0, ttl |-> 0, frag |-> Frag(0, 0, FALSE),
           ret |-> FALSE, len |-> 0, idx |-> 0, found |-> FALSE,
           inval |-> FALSE, fault |-> FALSE, num |-> 0]

\* The constructor: the purge timer is started, every entry is marked free.
\* The other fields of an entry are not initialised and are not read before
\* the entry is allocated.
InitReass ==
    /\ now = 0
    /\ m_timer = TimeAdd(0, PurgeTimerInterval)
    /\ m_reass_packets =
          [i \in Entries |->
              [first_hole_offset |-> ReassNullLink, data_length |-> 0,
               expiration_time |-> 0, header |-> MakeHeader(0, 0, 0, 0, 0),
               data |-> [c \in Cells |-> Uninit]]]
    /\ written = [i \in Entries |-> [c \in Cells |-> 0]]
    /\ reass_last = NoCall
    /\ only_dgram = TRUE
    /\ reass_life = [left |-> [i \in Entries |-> 0], purged |-> {}]

\* History of the lifetimes. An entry allocated for a packet with the given
\* ttl has LifetimeTicks(ttl) ticks to live; a tick of the clock takes one
\* from every live entry, down to -1 for an entry whose expiration_time has
\* passed. Expired(pk, t) are the entries that find_reass_entry frees.
LifetimeTicks(ttl) == MinValue(ttl, MaxReassTimeSeconds) * TimeFreq

Expired(pk, t) ==
    {i \in Entries : /\ pk[i].first_hole_offset # ReassNullLink
                     /\ EntryExpired(pk[i].expiration_time, t)}

LifeAfter(pk, allocated, ticks, purged) ==
    [left |-> [i \in Entries |->
                 IF pk[i].first_hole_offset = ReassNullLink THEN 0
                 ELSE IF i = allocated THEN ticks
                 ELSE reass_life.left[i]],
     purged |-> purged]

LifeElapsed ==
    [left |-> [i \in Entries |->
                 IF m_reass_packets[i].first_hole_offset = ReassNullLink THEN 0
                 ELSE MaxValue(reass_life.left[i] - 1, 0 - 1)],
     purged |-> {}]

\* A fragment arrives: reassembleIp4(ident, src_addr, dst_addr, proto, ttl,
\* more_fragments, fragment_offset, header, dgram).
ReassembleIp4(k, ttl, f) ==
    \E r \in {reassembleIp4(m_reass_packets, written, now, k, ttl, f.mf, f.off, f.len)} :
        /\ f.mf \/ f.off > 0
        /\ m_reass_packets' = r.pk
        /\ written' = r.wr
        /\ reass_last' = [op |-> "reass", key |-> k, ttl |-> ttl, frag |-> f,
                          ret |-> r.ret, len |-> r.len, idx |-> r.idx,
                          found |-> r.found, inval |-> r.inval, fault |-> r.fault,
                          num |-> r.num]
        /\ only_dgram' = (only_dgram /\ f \in DgramFrags /\ k = Key0)
        /\ reass_life' = LifeAfter(r.pk, IF r.found THEN 0 ELSE r.idx, LifetimeTicks(ttl),
                                   IF f.len = 0 THEN {} ELSE Expired(m_reass_packets, now))
        /\ UNCHANGED <<now, m_timer>>
        /\ UNCHANGED tcp_vars

\* The purge timer expires: timerHandler.
timerHandler ==
    /\ now = m_timer
    /\ m_timer' = TimeAdd(now, PurgeTimerInterval)
    /\ m_reass_packets' = PurgeExpired(m_reass_packets, now)
    /\ reass_last' = [NoCall EXCEPT !.op = "timer"]
    /\ reass_life' = LifeAfter(PurgeExpired(m_reass_packets, now), 0, 0,
                               Expired(m_reass_packets, now))
    /\ UNCHANGED <<now, written, only_dgram>>
    /\ UNCHANGED tcp_vars

\* The clock advances by one tick; an expired timer is served first.
Tick ==
    /\ now # m_timer
    /\ now' = TimeAdd(now, 1)
    /\ reass_life' = LifeElapsed
    /\ UNCHANGED <<m_timer, m_reass_packets, written, reass_last, only_dgram>>
    /\ UNCHANGED tcp_vars

\* Fragments of datagrams with the addresses of Key0 arrive within the first
\* MaxTicks ticks.
MaxTicks == 1
NextReass ==
    \/ \E ttl \in Ttls, f \in Frags : ReassembleIp4(Key0, ttl, f)
    \/ now < MaxTicks /\ Tick

\* The stack after construction: the reassembly table and the TCP module.
Init == InitReass /\ InitTcp

SpecReass == Init /\ [][NextReass]_vars

\* Fragments of datagrams of several addresses arrive while the clock runs
\* and wraps and the purge timer expires.
NextReassKeys ==
    \/ \E k \in Keys, ttl \in KeyTtls, f \in KeyFrags : ReassembleIp4(k, ttl, f)
    \/ timerHandler
    \/ Tick

SpecReassKeys == Init /\ [][NextReassKeys]_vars

\* ---------------------------------------------------------------------------
\* IpReassembly: properties
\* ---------------------------------------------------------------------------

Live(i) == m_reass_packets[i].first_hole_offset # ReassNullLink

\* The hole list of an entry, followed from first_hole_offset through the
\* descriptors in the buffer: a sequence of [off, size]. A link that cannot be
\* followed ends the sequence with a hole of Indeterminate size.
RECURSIVE HoleListFrom(_, _, _)
HoleListFrom(data, h, fuel) ==
    IF h = ReassNullLink THEN <<>>
    ELSE IF fuel = 0 \/ ~hole_offset_valid(h)
    THEN << [off |-> h, size |-> Indeterminate] >>
    ELSE << [off |-> h, size |-> GetHoleSize(data, h)] >>
         \o HoleListFrom(data, GetNextHoleOffset(data, h), fuel - 1)

HoleList(e) == HoleListFrom(e.data, e.first_hole_offset, Cardinality(Cells) + 1)

\* The protocol byte of a stored header, and whether the stored header is that
\* of the datagram k (ident, addresses, 8-bit protocol).
ProtoOf(hdr) == hdr.TtlProto % 256
TtlOf(hdr) == hdr.TtlProto \div 256
SameDatagram(hdr, k) ==
    /\ hdr.Ident = k.ident
    /\ hdr.SrcAddr = k.src
    /\ hdr.DstAddr = k.dst
    /\ ProtoOf(hdr) = k.proto

\* A step that is one call of reassembleIp4 (reass_last' describes it).
CallStep == now' = now /\ m_timer' = m_timer /\ reass_last'.op = "reass"

\* Entry i is live and unexpired, belongs to datagram k and has taken in the
\* fragment f and nothing else.
HoldsOnly(i, f, k) ==
    /\ Live(i)
    /\ ~EntryExpired(m_reass_packets[i].expiration_time, now)
    /\ SameDatagram(m_reass_packets[i].header, k)
    /\ \A c \in Cells :
          written[i][c] = IF f.off <= c /\ c < f.off + f.len THEN 1 ELSE 0

\* C1 (R1): in every reachable state every live entry has a hole list with at
\* least one hole, every hole of it is an intact descriptor, and the last hole
\* ends exactly at ReassBufferSize.
C1_LiveEntryHasTerminalHole ==
    \A i \in Entries :
        Live(i) =>
            LET hl == HoleList(m_reass_packets[i])
            IN  /\ Len(hl) >= 1
                /\ \A n \in 1..Len(hl) : hl[n].size # Indeterminate
                /\ hl[Len(hl)].off + hl[Len(hl)].size = ReassBufferSize

\* C1 witness: a fragment joined an existing entry and left it live with two
\* holes, the second one ending at ReassBufferSize.
C1_Witness ==
    /\ reass_last.op = "reass" /\ reass_last.found
    /\ Live(reass_last.idx)
    /\ LET hl == HoleList(m_reass_packets[reass_last.idx])
       IN Len(hl) = 2 /\ hl[2].off + hl[2].size = ReassBufferSize

\* C2: a call of reassembleIp4 (with payload) finds an entry exactly when some
\* live, unexpired entry stores the fragment's ident, source address,
\* destination address and 8-bit protocol, whatever TTL is stored with them.
C2_LookupIgnoresTtl ==
    [][ (CallStep /\ reass_last'.frag.len > 0) =>
            (reass_last'.found <=>
                \E i \in Entries :
                    /\ Live(i)
                    /\ ~EntryExpired(m_reass_packets[i].expiration_time, now)
                    /\ SameDatagram(m_reass_packets[i].header, reass_last'.key)) ]_vars

FirstFrag == Frag(0, 1480, TRUE)
SecondFrag == Frag(1480, 400, FALSE)
OverlapFrag == Frag(1200, 400, FALSE)
ShortLastFrag == Frag(1000, 400, FALSE)

\* C3: with no entry for the datagram, the first of the two fragments
\* (0,1480,MF) and (1480,400,last), sent with a TTL >= 1, makes reassembleIp4
\* return false; when an unexpired entry holds just that fragment, the other
\* one makes it return true with a datagram of 1880 bytes. Either fragment
\* may come first.
C3_TwoFragments ==
    [][ \A p \in { <<FirstFrag, SecondFrag>>, <<SecondFrag, FirstFrag>> } :
          /\ ( /\ CallStep /\ reass_last'.key = Key0 /\ reass_last'.ttl >= 1
               /\ reass_last'.frag = p[1]
               /\ \A i \in Entries : ~Live(i) )
             => ~reass_last'.ret
          /\ \A i \in Entries :
               ( /\ HoldsOnly(i, p[1], Key0)
                 /\ TtlOf(m_reass_packets[i].header) >= 1
                 /\ CallStep /\ reass_last'.key = Key0 /\ reass_last'.ttl >= 1
                 /\ reass_last'.frag = p[2] )
               => (reass_last'.ret /\ reass_last'.len = 1880) ]_vars

\* C4 (reorder invariance): as long as only fragments of the one datagram
\* have been fed, in whatever order and however often, a call that returns
\* true hands back DgramLen bytes and each of them is a payload byte of that
\* datagram.
C4_ReorderInvariance ==
    (only_dgram /\ reass_last.op = "reass" /\ reass_last.ret) =>
        /\ reass_last.len = DgramLen
        /\ \A c \in CellsIn(0, reass_last.len) :
              m_reass_packets[reass_last.idx].data[c] = Payload(KeyId(Key0))

\* C4 witness: the datagram was completed by the fragment (0,8,MF), so it
\* took at least three fragments and the first one did not come first.
C4_Witness ==
    /\ only_dgram /\ reass_last.op = "reass" /\ reass_last.ret
    /\ reass_last.frag = Frag(0, 8, TRUE)
    /\ reass_last.len = DgramLen

\* C5 (R2 as claimed): when reassembleIp4 returns true, every byte of
\* [0, data_length) was written by exactly one fragment of the entry.
C5_WrittenExactlyOnce ==
    (reass_last.op = "reass" /\ reass_last.ret) =>
        \A c \in CellsIn(0, reass_last.len) : written[reass_last.idx][c] = 1

\* C5 (R2 as the code keeps it): when reassembleIp4 returns true, every byte
\* of [0, data_length) was written by at least one fragment of the entry.
C5_WrittenAtLeastOnce ==
    (reass_last.op = "reass" /\ reass_last.ret) =>
        \A c \in CellsIn(0, reass_last.len) : written[reass_last.idx][c] >= 1

\* C5 witness: a completed datagram some bytes of which were written twice.
C5_Witness ==
    /\ reass_last.op = "reass" /\ reass_last.ret
    /\ \E c \in CellsIn(0, reass_last.len) : written[reass_last.idx][c] = 2
    /\ \A c \in CellsIn(0, reass_last.len) : written[reass_last.idx][c] >= 1

\* C6 (as claimed): when the entry of the datagram holds just (0,1480,MF) and
\* the lookup finds it, the fragment (1200,400,last) invalidates the entry:
\* reassembleIp4 returns false and the entry is free.
C6_OverlapInvalidates ==
    [][ \A i \in Entries :
          ( /\ HoldsOnly(i, FirstFrag, Key0)
            /\ CallStep /\ reass_last'.key = Key0 /\ reass_last'.found
            /\ reass_last'.frag = OverlapFrag )
          => ( /\ ~reass_last'.ret
               /\ reass_last'.inval
               /\ m_reass_packets'[i].first_hole_offset = ReassNullLink ) ]_vars

\* C6 (as the code behaves): when the entry of the datagram holds just
\* (0,1480,MF) and the lookup finds it, the fragment (1200,400,last) is
\* accepted and completes a datagram of 1600 bytes (true is returned, the
\* entry is freed without invalidation); the last fragment (1000,400,last),
\* which ends before data already received, invalidates the entry
\* (false is returned, the entry is free).
C6_OverlapAccepted ==
    [][ \A i \in Entries :
          ( /\ HoldsOnly(i, FirstFrag, Key0)
            /\ CallStep /\ reass_last'.key = Key0 /\ reass_last'.found )
          => /\ reass_last'.frag = OverlapFrag =>
                  ( /\ reass_last'.ret /\ reass_last'.len = 1600
                    /\ ~reass_last'.inval
                    /\ m_reass_packets'[i].first_hole_offset = ReassNullLink )
             /\ reass_last'.frag = ShortLastFrag =>
                  ( /\ ~reass_last'.ret /\ reass_last'.inval
                    /\ m_reass_packets'[i].first_hole_offset = ReassNullLink ) ]_vars

\* C6 witness: (1200,400,last) was found to belong to an entry that held
\* (0,1480,MF) and nothing else, and a datagram of 1600 bytes was returned.
C6_Witness ==
    /\ reass_last.op = "reass" /\ reass_last.found /\ reass_last.ret
    /\ reass_last.frag = OverlapFrag /\ reass_last.len = 1600
    /\ \A c \in CellsIn(0, 1600) :
          written[reass_last.idx][c] = IF 1200 <= c /\ c < 1480 THEN 2 ELSE 1

\* C7 (hole limit): a call that walked the whole hole list, counted more than
\* MaxReassHoles holes and did not complete the datagram left through
\* invalidate_reass and returned false; and in every reachable state every
\* live entry has at most MaxReassHoles holes.
C7_HoleLimit ==
    /\ ( /\ reass_last.op = "reass" /\ reass_last.num > MaxReassHoles
         /\ ~reass_last.ret )
       => (reass_last.inval /\ ~Live(reass_last.idx))
    /\ \A i \in Entries : Live(i) => Len(HoleList(m_reass_packets[i])) <= MaxReassHoles

\* C7 witness: a fragment would have left its entry with more than
\* MaxReassHoles holes and the entry was invalidated for that.
C7_Witness ==
    /\ reass_last.op = "reass" /\ reass_last.found
    /\ reass_last.num > MaxReassHoles
    /\ reass_last.inval /\ ~reass_last.fault
    /\ ~Live(reass_last.idx)

\* ---------------------------------------------------------------------------
\* TCP: helpers
\* ---------------------------------------------------------------------------

\* TcpUtils: classification of the connection states.
state_is_active(st) ==
    st \in {"ESTABLISHED", "FIN_WAIT_1", "FIN_WAIT_2", "CLOSE_WAIT", "LAST_ACK", "CLOSING"}
can_output_in_state(st) ==
    st \in {"ESTABLISHED", "FIN_WAIT_1", "CLOSING", "CLOSE_WAIT", "LAST_ACK"}
snd_open_in_state(st) == st \in {"ESTABLISHED", "CLOSE_WAIT"}

\* What the application and the peer do is drawn from these sets: the send
\* buffer holds up to MaxSndBuf bytes and a connection is given up to
\* MaxQueued bytes to send in all.
MaxSndBuf == 2
MaxQueued == 3
snd_mss == 2
SndWnds == {0, 1, MaxSndBuf + 1}
Cwnds == {snd_mss, MaxSndBuf + 1}
IssChoices == {SeqMod - 2}
\* The peer's initial sequence number: one value where only sending is
\* looked at, every value where receiving is.
IrsChoices == {SeqMod - 3}
AllIrs == 0..(SeqMod - 1)
MaxRcvLen == 2
PassiveRemotes == {1}
RemoteOf(c) == c
\* Retransmission timeouts in RttType ticks, with RttTimeFreq = 2 and a
\* 3-bit RttType.
RttTypeMax == 7
MinRtxTime == 1
InitialRtxTime == 2
MaxRtxTime == 5
Rtos == MinRtxTime..MaxRtxTime

\* What a handler finds outside the state kept here: the fail_at-th segment
\* of the output fails to be sent (0: none), the congestion window is cwnd,
\* the data is pushed to the end, and pcb->rto is rto; the transmission that
\* fails does so with the IpErr err; a round-trip-time measurement is pending
\* or not (rtt_pending), with rtt_test_seq at snd_una + rtt_off.
OutParams ==
    [fail_at : 0..2, cwnd : Cwnds, pushed : BOOLEAN, rto : {InitialRtxTime},
     err : {"BUFFER_FULL"}, rtt_pending : {FALSE}, rtt_off : {0}]

\* The errors a transmission fails with (IpErr but SUCCESS), and the output
\* of an open window that fails with another error than BUFFER_FULL.
IpErrs == {"BUFFER_FULL", "FRAG_NEEDED", "NO_ROUTE"}
OutErrParams ==
    [fail_at : 1..2, cwnd : {MaxSndBuf + 1}, pushed : {TRUE}, rto : {InitialRtxTime},
     err : {"FRAG_NEEDED"}, rtt_pending : {FALSE}, rtt_off : {0}]

\* pcb_rtx_timer_handler_core: the timeout is doubled, without overflow of
\* RttType and up to MaxRtxTime.
DoubledRto_Unbounded(rto) == 2 * rto

DoubledRto(rto) ==
    MinValue(MaxRtxTime, IF rto > RttTypeMax \div 2 THEN RttTypeMax ELSE 2 * rto)

\* IpTcpProto_constants.h: the timeouts of the AbrtTimer and the delays of
\* the OutputTimer, in ticks of a platform clock that makes TcpTimeFreq ticks
\* a second (the conversion to TimeType drops the fraction).
TcpTimeFreq == 10000
SynRcvdTimeoutTicks == 20 * TcpTimeFreq
SynSentTimeoutTicks == 30 * TcpTimeFreq
TimeWaitTimeTicks == 120 * TcpTimeFreq
AbandonedTimeoutTicks == 30 * TcpTimeFreq
OutputTimerTicks == (5 * TcpTimeFreq) \div 10000
OutputRetryFullTicks == TcpTimeFreq \div 10
OutputRetryOtherTicks == 2 * TcpTimeFreq

\* The address tuple of a PCB (PcbKey) as one number: the remote end and the
\* local port; the listener's port is not an ephemeral one (0 here).
PcbKey(remote, port) == remote * (EphemeralPortLast + 1) + port
ActiveKey(port, remote) == PcbKey(remote, port)
PassiveKey(remote) == PcbKey(remote, 0)

\* The TCP state as one value, and the step that installs a new one. What
\* the handler returned and sent (obs) is not part of the state.
TcpNow ==
    [pcbs |-> pcbs, cons |-> cons, lis |-> m_listener,
     unref |-> m_unrefed_pcbs_list, active |-> m_pcb_index_active,
     timewait |-> m_pcb_index_timewait, cur |-> m_current_pcb,
     port |-> m_next_ephemeral_port, cb |-> tcp_cb, fault |-> tcp_fault,
     age |-> unref_age, abrt |-> abrt_after, obs |-> NoObs]

TcpStep(T) ==
    /\ pcbs' = [p \in Pcbs |->
                   IF "OutputTimer" \in T.pcbs[p].tim THEN T.pcbs[p]
                   ELSE [T.pcbs[p] EXCEPT !.out_after = 0]]
    /\ cons' = T.cons
    /\ m_listener' = T.lis
    /\ m_unrefed_pcbs_list' = T.unref
    /\ m_pcb_index_active' = T.active
    /\ m_pcb_index_timewait' = T.timewait
    /\ m_current_pcb' = T.cur
    /\ m_next_ephemeral_port' = T.port
    /\ tcp_cb' = T.cb
    /\ tcp_fault' = T.fault
    /\ unref_age' = T.age
    /\ abrt_after' = [p \in Pcbs |->
                         IF "AbrtTimer" \in T.pcbs[p].tim THEN T.abrt[p] ELSE 0]
    /\ UNCHANGED <<cc, lq, snd, heap>>
    /\ UNCHANGED reass_vars

\* AIPSTACK_ASSERT failed.
Fault(T) == [T EXCEPT !.fault = TRUE]

ListRemove(list, p) == SelectSeq(list, LAMBDA x : x # p)
InList(list, p) == \E i \in 1..Len(list) : list[i] = p

inInputProcessing(T, p) == T.cur = p

pcb_is_in_unreferenced_list(T, p) ==
    IF T.pcbs[p].state = "SYN_RCVD" THEN T.lis.m_accept_pcb # p
    ELSE T.pcbs[p].con = ConNull

move_unrefed_pcb_to_front(list, p) ==
    IF list # <<>> /\ p # list[1] THEN <<p>> \o ListRemove(list, p) ELSE list

find_pcb(T, key) ==
    IF \E p \in T.active : T.pcbs[p].key = key
    THEN CHOOSE p \in T.active : T.pcbs[p].key = key
    ELSE IF \E p \in T.timewait : T.pcbs[p].key = key
    THEN CHOOSE p \in T.timewait : T.pcbs[p].key = key
    ELSE PcbNull

NumEphemeralPorts == EphemeralPortLast - EphemeralPortFirst + 1
NextPort_NoWrap(port) == port + 1

NextPort(port) == IF port < EphemeralPortLast THEN port + 1 ELSE EphemeralPortFirst

RECURSIVE PortScan(_, _, _, _)
PortScan(T, remote, port, i) ==
    IF i = 0 THEN [port |-> 0, next |-> port]
    ELSE IF find_pcb(T, ActiveKey(port, remote)) = PcbNull
    THEN [port |-> port, next |-> NextPort(port)]
    ELSE PortScan(T, remote, NextPort(port), i - 1)

get_ephemeral_port(T, remote) == PortScan(T, remote, T.port, NumEphemeralPorts)

\* ---------------------------------------------------------------------------
\* TCP: output (IpTcpProto_output.h)
\* ---------------------------------------------------------------------------

pcb_fin_acked(pcb) == "FIN_SENT" \in pcb.flags /\ pcb.snd_una = pcb.snd_nxt

\* pcb_send_syn: when the SYN or SYN-ACK went out for the first time it is
\* counted in snd_nxt; err means that sending failed.
pcb_send_syn_BumpsUna(pcb, err) ==
    IF ~err /\ pcb.snd_nxt = pcb.snd_una
    THEN [pcb EXCEPT !.snd_una = seq_add(pcb.snd_una, 1)] ELSE pcb

pcb_send_syn(pcb, err) ==
    IF ~err /\ pcb.snd_nxt = pcb.snd_una
    THEN [pcb EXCEPT !.snd_nxt = seq_add(pcb.snd_nxt, 1)] ELSE pcb

\* pcb_send_rst: one RST segment with sequence number snd_nxt.
pcb_send_rst(T, p) ==
    [T EXCEPT !.obs.sent = Append(@, [kind |-> "RST", pcb |-> p,
                                      seq |-> T.pcbs[p].snd_nxt, len |-> 0])]

pcb_has_snd_outstanding(T, p) ==
    IF ~snd_open_in_state(T.pcbs[p].state) THEN TRUE
    ELSE T.pcbs[p].con # ConNull /\ T.cons[T.pcbs[p].con].snd_buf > 0

pcb_has_snd_unacked(T, p) ==
    \/ /\ T.pcbs[p].con # ConNull
       /\ T.cons[T.pcbs[p].con].snd_buf_cur < T.cons[T.pcbs[p].con].snd_buf
    \/ /\ ~snd_open_in_state(T.pcbs[p].state)
       /\ "FIN_PENDING" \notin T.pcbs[p].flags

pcb_set_output_timer_for_output(pcb) ==
    [pcb EXCEPT !.flags = @ \ {"OUT_RETRY"}, !.tim = @ \cup {"OutputTimer"},
                !.out_after = IF "OUT_RETRY" \in pcb.flags \/ "OutputTimer" \notin pcb.tim
                              THEN OutputTimerTicks ELSE @]

\* (Retrying after the same delay whatever the error.)
pcb_set_output_timer_for_retry_OneDelay(pcb, err) ==
    [pcb EXCEPT !.flags = @ \cup {"OUT_RETRY"}, !.tim = @ \cup {"OutputTimer"},
                !.out_after = OutputRetryOtherTicks]

pcb_set_output_timer_for_retry(pcb, err) ==
    [pcb EXCEPT !.flags = @ \cup {"OUT_RETRY"}, !.tim = @ \cup {"OutputTimer"},
                !.out_after = IF err = "BUFFER_FULL" THEN OutputRetryFullTicks
                              ELSE OutputRetryOtherTicks]

pcb_push_output(T, p) ==
    IF ~(can_output_in_state(T.pcbs[p].state) /\ pcb_has_snd_outstanding(T, p))
    THEN Fault(T)
    ELSE IF inInputProcessing(T, p)
    THEN [T EXCEPT !.pcbs[p].flags = @ \cup {"OUT_PENDING"}]
    ELSE [T EXCEPT !.pcbs[p] = pcb_set_output_timer_for_output(@)]

pcb_end_sending(T, p) ==
    IF ~snd_open_in_state(T.pcbs[p].state) THEN Fault(T)
    ELSE pcb_push_output(
            [T EXCEPT !.pcbs[p].state =
                          IF @ = "ESTABLISHED" THEN "FIN_WAIT_1" ELSE "LAST_ACK",
                      !.pcbs[p].flags = @ \cup {"FIN_PENDING"}], p)

pcb_snd_buf_extended(T, p) ==
    IF T.pcbs[p].state = "SYN_SENT" THEN T
    ELSE IF ~(snd_open_in_state(T.pcbs[p].state) /\ pcb_has_snd_outstanding(T, p))
    THEN Fault(T)
    ELSE [T EXCEPT !.pcbs[p] = pcb_set_output_timer_for_output(@)]

\* pcb_output_segment: the segment taken from the rem_data_len last bytes of
\* the send buffer, with a FIN if fin is set, all the data fits and the window
\* has room for it.
SegDataLen_NoMss(rem_data_len, rem_wnd) == MinValue(rem_data_len, rem_wnd)

SegDataLen(rem_data_len, rem_wnd) ==
    MinValue(rem_data_len, MinValue(rem_wnd, snd_mss))

SegHasFin(rem_data_len, fin, rem_wnd) ==
    /\ SegDataLen(rem_data_len, rem_wnd) + (IF fin THEN 1 ELSE 0) > rem_data_len
    /\ rem_wnd > SegDataLen(rem_data_len, rem_wnd)

SegSeqLen(rem_data_len, fin, rem_wnd) ==
    SegDataLen(rem_data_len, rem_wnd)
        + (IF SegHasFin(rem_data_len, fin, rem_wnd) THEN 1 ELSE 0)

SegEndSeq(pcb, snd_buf_len, rem_data_len, fin, rem_wnd) ==
    seq_add(seq_add(pcb.snd_una, snd_buf_len - rem_data_len),
            SegSeqLen(rem_data_len, fin, rem_wnd))

\* (Setting snd_nxt to the end of whatever segment was sent.)
pcb_output_segment_SetsNxt(pcb, snd_buf_len, rem_data_len, fin, rem_wnd) ==
    [pcb EXCEPT
        !.flags = IF SegHasFin(rem_data_len, fin, rem_wnd)
                  THEN @ \cup {"FIN_SENT"} ELSE @,
        !.snd_nxt = SegEndSeq(pcb, snd_buf_len, rem_data_len, fin, rem_wnd)]

pcb_output_segment(pcb, snd_buf_len, rem_data_len, fin, rem_wnd) ==
    [pcb EXCEPT
        !.flags = IF SegHasFin(rem_data_len, fin, rem_wnd)
                  THEN @ \cup {"FIN_SENT"} ELSE @,
        !.snd_nxt = IF seq_lt2(@, SegEndSeq(pcb, snd_buf_len, rem_data_len, fin, rem_wnd))
                    THEN SegEndSeq(pcb, snd_buf_len, rem_data_len, fin, rem_wnd)
                    ELSE @]

\* pcb_output_segment, the round-trip-time measurement: a pending one is
\* given up when the segment holds rtt_test_seq, and one is started at snd_nxt
\* when the segment moves snd_nxt and none is pending.
SegmentStopsRtt(w, snd_buf_len) ==
    /\ w.rtt.pending
    /\ seq_diff(w.rtt.test_seq, seq_add(w.pcb.snd_una, snd_buf_len - w.cur))
          < SegSeqLen(w.cur, w.fin, w.rem_wnd)

\* (Keeping a pending measurement whatever is sent again.)
segment_rtt_NoStop(w, snd_buf_len) ==
    IF seq_lt2(w.pcb.snd_nxt, SegEndSeq(w.pcb, snd_buf_len, w.cur, w.fin, w.rem_wnd))
       /\ ~w.rtt.pending
    THEN [pending |-> TRUE, test_seq |-> w.pcb.snd_nxt]
    ELSE w.rtt

segment_rtt(w, snd_buf_len) ==
    IF seq_lt2(w.pcb.snd_nxt, SegEndSeq(w.pcb, snd_buf_len, w.cur, w.fin, w.rem_wnd))
       /\ (~w.rtt.pending \/ SegmentStopsRtt(w, snd_buf_len))
    THEN [pending |-> TRUE, test_seq |-> w.pcb.snd_nxt]
    ELSE IF SegmentStopsRtt(w, snd_buf_len) THEN [w.rtt EXCEPT !.pending = FALSE]
    ELSE w.rtt

\* One turn of the loop of pcb_output_active after a segment was sent;
\* w = [pcb, cur, fin, rem_wnd, rtt, err] with cur the length of snd_buf_cur.
OutputSent(w, snd_buf_len) ==
    [rtt |-> segment_rtt(w, snd_buf_len),
     err |-> w.err,
     pcb |-> [pcb_output_segment(w.pcb, snd_buf_len, w.cur, w.fin, w.rem_wnd)
                EXCEPT !.flags = IF SegSeqLen(w.cur, w.fin, w.rem_wnd) > w.cur
                                 THEN @ \ {"FIN_PENDING", "ACK_PENDING"}
                                 ELSE @ \ {"ACK_PENDING"}],
     cur |-> IF SegSeqLen(w.cur, w.fin, w.rem_wnd) > w.cur THEN 0
             ELSE w.cur - SegSeqLen(w.cur, w.fin, w.rem_wnd),
     fin |-> w.fin /\ ~(SegSeqLen(w.cur, w.fin, w.rem_wnd) > w.cur),
     rem_wnd |-> w.rem_wnd - SegSeqLen(w.cur, w.fin, w.rem_wnd)]

\* The loop of pcb_output_active; the fail_at-th segment fails to be sent
\* (0: none fails).
RECURSIVE OutputLoop(_, _, _, _)
OutputLoop(w, snd_buf_len, data_threshold, fail_at) ==
    IF ~((w.cur > data_threshold \/ w.fin) /\ w.rem_wnd > 0) THEN w
    ELSE IF fail_at = 1
    THEN [w EXCEPT !.pcb = pcb_set_output_timer_for_retry(@, w.err)]
    ELSE OutputLoop(OutputSent(w, snd_buf_len), snd_buf_len, data_threshold,
                    IF fail_at = 0 THEN 0 ELSE fail_at - 1)

\* The end of pcb_output_active: the idle timeout is stopped and the
\* retransmission timer is started if something is unacked or the window is
\* closed.
OutputTimers(T, p) ==
    [T EXCEPT !.pcbs[p].flags = @ \ {"IDLE_TIMER"},
              !.pcbs[p].tim =
                  IF \/ pcb_has_snd_unacked(T, p)
                     \/ T.cons[T.pcbs[p].con].snd_wnd = 0
                  THEN @ \cup {"RtxTimer"}
                  ELSE IF "IDLE_TIMER" \in T.pcbs[p].flags THEN @ \ {"RtxTimer"}
                  ELSE @]

OutputStart(T, p, o) ==
    [rtt |-> [pending |-> o.rtt_pending,
              test_seq |-> seq_add(T.pcbs[p].snd_una, o.rtt_off)],
     err |-> o.err,
     pcb |-> T.pcbs[p],
     cur |-> T.cons[T.pcbs[p].con].snd_buf_cur,
     fin |-> "FIN_PENDING" \in T.pcbs[p].flags,
     rem_wnd |-> MaxValue(0, MinValue(T.cons[T.pcbs[p].con].snd_wnd, o.cwnd)
                          - (T.cons[T.pcbs[p].con].snd_buf
                             - T.cons[T.pcbs[p].con].snd_buf_cur))]

DataThreshold(T, p, o) ==
    IF o.pushed \/ ~snd_open_in_state(T.pcbs[p].state) THEN 0
    ELSE MinValue(T.cons[T.pcbs[p].con].snd_buf, snd_mss - 1)

OutputDone(T, p, w) ==
    OutputTimers([T EXCEPT !.pcbs[p] = w.pcb,
                           !.obs.rtt = w.rtt,
                           !.cons[T.pcbs[p].con].snd_buf_cur = w.cur], p)

pcb_output_active(T, p, rtx_or_window_probe, o) ==
    IF ~(/\ can_output_in_state(T.pcbs[p].state)
         /\ pcb_has_snd_outstanding(T, p)
         /\ T.pcbs[p].con # ConNull)
    THEN Fault(T)
    ELSE IF rtx_or_window_probe
    THEN IF o.fail_at = 1 THEN T
         ELSE [T EXCEPT !.pcbs[p] =
                  pcb_output_segment(@, T.cons[T.pcbs[p].con].snd_buf,
                                     T.cons[T.pcbs[p].con].snd_buf,
                                     ~snd_open_in_state(T.pcbs[p].state),
                                     MaxValue(1, T.cons[T.pcbs[p].con].snd_wnd)),
                        !.obs.sent = Append(@,
                            [kind |-> "SEG", pcb |-> p, seq |-> T.pcbs[p].snd_una,
                             len |-> SegSeqLen(T.cons[T.pcbs[p].con].snd_buf,
                                        ~snd_open_in_state(T.pcbs[p].state),
                                        MaxValue(1, T.cons[T.pcbs[p].con].snd_wnd))])]
    ELSE OutputDone(T, p,
            OutputLoop(OutputStart(T, p, o), T.cons[T.pcbs[p].con].snd_buf,
                       DataThreshold(T, p, o), o.fail_at))

\* pcb_output_abandoned: the FIN of a PCB without connection, sent at snd_una
\* and counted in snd_nxt unless it was counted before.
FinSentAbandoned_NotCounted(pcb) ==
    [pcb EXCEPT !.flags = @ \cup {"FIN_SENT"}]

FinSentAbandoned(pcb) ==
    [pcb EXCEPT !.flags = @ \cup {"FIN_SENT"},
                !.snd_nxt = IF pcb.snd_nxt = pcb.snd_una THEN seq_add(@, 1) ELSE @]

AbandonedRtxTimer(pcb) ==
    IF "FIN_PENDING" \notin pcb.flags
    THEN [pcb EXCEPT !.tim = @ \cup {"RtxTimer"}] ELSE pcb

pcb_output_abandoned(T, p, rtx_or_window_probe, o) ==
    IF ~(/\ can_output_in_state(T.pcbs[p].state)
         /\ T.pcbs[p].con = ConNull
         /\ ~snd_open_in_state(T.pcbs[p].state)
         /\ "IDLE_TIMER" \notin T.pcbs[p].flags)
    THEN Fault(T)
    ELSE IF rtx_or_window_probe
    THEN IF o.fail_at = 1 THEN T
         ELSE [T EXCEPT !.pcbs[p] = FinSentAbandoned(@),
                        !.obs.sent = Append(@,
                            [kind |-> "SEG", pcb |-> p, seq |-> T.pcbs[p].snd_una,
                             len |-> 1])]
    ELSE IF "FIN_PENDING" \notin T.pcbs[p].flags
    THEN [T EXCEPT !.pcbs[p] = AbandonedRtxTimer(@)]
    ELSE IF o.fail_at = 1
    THEN [T EXCEPT !.pcbs[p] = pcb_set_output_timer_for_retry(@, o.err)]
    ELSE [T EXCEPT !.pcbs[p] =
             AbandonedRtxTimer([FinSentAbandoned(@) EXCEPT
                                   !.flags = @ \ {"FIN_PENDING", "ACK_PENDING"}])]

pcb_output(T, p, rtx_or_window_probe, o) ==
    IF ~(can_output_in_state(T.pcbs[p].state) /\ pcb_has_snd_outstanding(T, p))
    THEN Fault(T)
    ELSE IF T.pcbs[p].con # ConNull
    THEN pcb_output_active(T, p, rtx_or_window_probe, o)
    ELSE pcb_output_abandoned(T, p, rtx_or_window_probe, o)

pcb_requeue_everything(T, p) ==
    [T EXCEPT !.cons = IF T.pcbs[p].con # ConNull
                       THEN [@ EXCEPT ![T.pcbs[p].con].snd_buf_cur =
                                          T.cons[T.pcbs[p].con].snd_buf]
                       ELSE @,
              !.pcbs[p].flags = IF ~snd_open_in_state(T.pcbs[p].state)
                                THEN @ \cup {"FIN_PENDING"} ELSE @]

\* pcb_rtx_timer_handler_core, entered with the timer already expired.
pcb_rtx_timer_handler(T, p, o) ==
    IF ~(T.pcbs[p].state \in {"SYN_SENT", "SYN_RCVD"}
         \/ can_output_in_state(T.pcbs[p].state))
    THEN Fault(T)
    ELSE IF "IDLE_TIMER" \in T.pcbs[p].flags
    THEN IF pcb_has_snd_unacked(T, p) \/ T.pcbs[p].con = ConNull THEN Fault(T)
         ELSE [T EXCEPT !.pcbs[p].flags = @ \ {"IDLE_TIMER"}]
    ELSE IF T.pcbs[p].state \in {"SYN_SENT", "SYN_RCVD"}
    THEN [T EXCEPT !.pcbs[p] =
             pcb_send_syn([@ EXCEPT !.tim = @ \cup {"RtxTimer"}], o.fail_at = 1),
                   !.obs.rto = DoubledRto(o.rto)]
    ELSE IF ~pcb_has_snd_outstanding(T, p) THEN Fault(T)
    ELSE IF /\ ~pcb_has_snd_unacked(T, p)
            /\ (T.pcbs[p].con = ConNull \/ T.cons[T.pcbs[p].con].snd_wnd # 0)
    THEN T
    ELSE IF T.pcbs[p].con = ConNull \/ T.cons[T.pcbs[p].con].snd_wnd = 0
    THEN pcb_output([T EXCEPT !.pcbs[p].tim = @ \cup {"RtxTimer"},
                              !.obs.rto = DoubledRto(o.rto)], p, TRUE, o)
    ELSE pcb_output_active(
            pcb_requeue_everything(
                [T EXCEPT !.pcbs[p].tim = @ \cup {"RtxTimer"},
                          !.obs.rto = DoubledRto(o.rto)], p),
            p, FALSE, [o EXCEPT !.cwnd = snd_mss])

\* ---------------------------------------------------------------------------
\* TCP: PCB management (IpTcpProto.h)
\* ---------------------------------------------------------------------------

pcb_unlink_lis(T, p) ==
    IF ~(T.pcbs[p].state = "SYN_RCVD" /\ T.pcbs[p].lis /\ T.lis.m_num_pcbs > 0)
    THEN Fault(T)
    ELSE [T EXCEPT !.lis.m_num_pcbs = @ - 1,
                   !.lis.m_accept_pcb = IF @ = p THEN PcbNull ELSE @,
                   !.unref = IF T.lis.m_accept_pcb = p THEN Append(@, p) ELSE @,
                   !.age = IF T.lis.m_accept_pcb = p THEN Append(@, p) ELSE @,
                   !.pcbs[p].con = ConNull,
                   !.pcbs[p].lis = FALSE]

\* pcb_unlink_con up to the call of the connectionAborted callback:
\* con->pcb_aborted() has broken the link between the two objects, the PCB is
\* not yet on the list of unreferenced PCBs.
con_pcb_aborted_KeepsLink(T, p, closing, after) ==
    [T EXCEPT !.cons[T.pcbs[p].con].pcb = PcbNull,
              !.cb = [kind |-> "connectionAborted", pcb |-> p,
                      closing |-> closing, after |-> after, aborted |-> FALSE]]

con_pcb_aborted(T, p, closing, after) ==
    [T EXCEPT !.cons[T.pcbs[p].con].pcb = PcbNull,
              !.pcbs[p].con = ConNull,
              !.cb = [kind |-> "connectionAborted", pcb |-> p,
                      closing |-> closing, after |-> after, aborted |-> FALSE]]

\* pcb_unlink_con after the callback has returned.
pcb_unlink_con_end(T, p, closing) ==
    [T EXCEPT !.unref = IF closing THEN Append(@, p) ELSE <<p>> \o @,
              !.age = IF closing THEN Append(@, p) ELSE <<p>> \o @]

\* (Leaving the PCB where it is in the list of unreferenced PCBs.)
pcb_abort_end_NoMove(T, p) ==
    [T EXCEPT !.cur = IF @ = p THEN PcbNull ELSE @,
              !.timewait = IF T.pcbs[p].state = "TIME_WAIT" THEN @ \ {p} ELSE @,
              !.active = IF T.pcbs[p].state # "TIME_WAIT" THEN @ \ {p} ELSE @,
              !.age = Append(ListRemove(@, p), p),
              !.pcbs[p] = ClosedPcb]

\* (Leaving m_current_pcb as it is.)
pcb_abort_end_KeepsCurrent(T, p) ==
    [T EXCEPT !.cb.aborted = @ \/ (T.cb.kind # "none" /\ T.cb.pcb = p),
              !.timewait = IF T.pcbs[p].state = "TIME_WAIT" THEN @ \ {p} ELSE @,
              !.active = IF T.pcbs[p].state # "TIME_WAIT" THEN @ \ {p} ELSE @,
              !.unref = IF @ # <<>> /\ @[Len(@)] = p THEN @
                        ELSE Append(ListRemove(@, p), p),
              !.age = Append(ListRemove(@, p), p),
              !.fault = @ \/ ~InList(T.unref, p) \/ T.pcbs[p].con # ConNull,
              !.pcbs[p] = ClosedPcb]

\* pcb_abort after the listener or connection has been unlinked; at its end
\* pcb_assert_closed requires that the PCB has no connection.
pcb_abort_end(T, p) ==
    [T EXCEPT !.cur = IF @ = p THEN PcbNull ELSE @,
              !.cb.aborted = @ \/ (T.cb.kind # "none" /\ T.cb.pcb = p),
              !.timewait = IF T.pcbs[p].state = "TIME_WAIT" THEN @ \ {p} ELSE @,
              !.active = IF T.pcbs[p].state # "TIME_WAIT" THEN @ \ {p} ELSE @,
              !.unref = IF @ # <<>> /\ @[Len(@)] = p THEN @
                        ELSE Append(ListRemove(@, p), p),
              !.age = Append(ListRemove(@, p), p),
              !.fault = @ \/ ~InList(T.unref, p) \/ T.pcbs[p].con # ConNull,
              !.pcbs[p] = ClosedPcb]

\* pcb_abort(pcb, send_rst) after the RST was sent if desired.
pcb_abort_unlink(T, p) ==
    IF T.pcbs[p].state = "SYN_RCVD" THEN pcb_abort_end(pcb_unlink_lis(T, p), p)
    ELSE IF T.pcbs[p].con = ConNull THEN pcb_abort_end(T, p)
    ELSE con_pcb_aborted(T, p, TRUE, "pcb_abort")

\* The call is noted in obs.aborts with the state the PCB was in.
pcb_abort_rst(T, p, send_rst) ==
    IF T.pcbs[p].state = "CLOSED" THEN Fault(T)
    ELSE pcb_abort_unlink(
            [(IF send_rst THEN pcb_send_rst(T, p) ELSE T) EXCEPT
                !.obs.aborts = Append(@, [pcb |-> p, state |-> T.pcbs[p].state,
                                          send_rst |-> send_rst])],
            p)

\* (Sending an RST in every state.)
pcb_abort_AlwaysRst(T, p) == pcb_abort_rst(T, p, TRUE)

\* pcb_abort(pcb): an RST is sent unless the PCB is in SYN_SENT, SYN_RCVD or
\* TIME_WAIT.
pcb_abort(T, p) ==
    pcb_abort_rst(T, p, T.pcbs[p].state \notin {"SYN_SENT", "SYN_RCVD", "TIME_WAIT"})

\* (Leaving the PCB in the active index.)
pcb_go_to_time_wait_end_NoMove(T, p) ==
    [T EXCEPT !.pcbs[p].snd_nxt = T.pcbs[p].snd_una,
              !.pcbs[p].state = "TIME_WAIT",
              !.pcbs[p].tim = (@ \ {"OutputTimer", "RtxTimer"}) \cup {"AbrtTimer"},
              !.abrt[p] = TimeWaitTimeTicks,
              !.pcbs[p].flags = @ \ {"OUT_PENDING"}]

\* (Starting no timer for the TIME_WAIT state.)
pcb_go_to_time_wait_end_NoTimer(T, p) ==
    [T EXCEPT !.pcbs[p].snd_nxt = T.pcbs[p].snd_una,
              !.pcbs[p].state = "TIME_WAIT",
              !.active = @ \ {p},
              !.timewait = @ \cup {p},
              !.pcbs[p].tim = @ \ {"OutputTimer", "RtxTimer", "AbrtTimer"},
              !.pcbs[p].flags = @ \ {"OUT_PENDING"}]

pcb_go_to_time_wait_end(T, p) ==
    [T EXCEPT !.pcbs[p].snd_nxt = T.pcbs[p].snd_una,
              !.pcbs[p].state = "TIME_WAIT",
              !.active = @ \ {p},
              !.timewait = @ \cup {p},
              !.pcbs[p].tim = (@ \ {"OutputTimer", "RtxTimer"}) \cup {"AbrtTimer"},
              !.abrt[p] = TimeWaitTimeTicks,
              !.pcbs[p].flags = @ \ {"OUT_PENDING"}]

pcb_go_to_time_wait(T, p) ==
    IF T.pcbs[p].state \in {"CLOSED", "SYN_RCVD", "TIME_WAIT"} THEN Fault(T)
    ELSE IF T.pcbs[p].con = ConNull THEN pcb_go_to_time_wait_end(T, p)
    ELSE con_pcb_aborted(T, p, FALSE, "pcb_go_to_time_wait")

pcb_go_to_fin_wait_2(T, p) ==
    IF T.pcbs[p].state # "FIN_WAIT_1" THEN Fault(T)
    ELSE [T EXCEPT !.pcbs[p].state = "FIN_WAIT_2",
                   !.pcbs[p].tim = @ \ {"OutputTimer", "RtxTimer"},
                   !.pcbs[p].flags = @ \ {"OUT_PENDING"}]

\* pcb_abandoned after the PCB was appended to the unreferenced list and it
\* was decided not to abort it.
\* (Without the abort timeout.)
pcb_abandoned_end_NoTimeout(T, p) == T

pcb_abandoned_end(T, p) ==
    [T EXCEPT !.pcbs[p].tim = @ \cup {"AbrtTimer"},
              !.abrt[p] = AbandonedTimeoutTicks]

\* (Leaving the idle timeout running when the connection is abandoned.)
StopIdleTimer_Keeps(pcb) == pcb

\* pcb_abandoned: the idle timeout is stopped.
StopIdleTimer(pcb) ==
    IF "IDLE_TIMER" \in pcb.flags
    THEN [pcb EXCEPT !.flags = @ \ {"IDLE_TIMER"}, !.tim = @ \ {"RtxTimer"}]
    ELSE pcb

pcb_abandoned_listed(T, p, rst_needed) ==
    IF T.pcbs[p].state = "SYN_SENT" \/ rst_needed THEN pcb_abort(T, p)
    ELSE IF snd_open_in_state(T.pcbs[p].state)
    THEN pcb_abandoned_end(
            pcb_end_sending([T EXCEPT !.pcbs[p] = StopIdleTimer(@)], p), p)
    ELSE pcb_abandoned_end([T EXCEPT !.pcbs[p] = StopIdleTimer(@)], p)

pcb_abandoned_NoAppend(T, p, rst_needed) ==
    pcb_abandoned_listed([T EXCEPT !.age = <<p>> \o @], p, rst_needed)

pcb_abandoned(T, p, rst_needed) ==
    IF ~(/\ T.pcbs[p].state = "SYN_SENT" \/ state_is_active(T.pcbs[p].state)
         /\ T.pcbs[p].con = ConNull)
    THEN Fault(T)
    ELSE pcb_abandoned_listed([T EXCEPT !.unref = Append(@, p), !.age = <<p>> \o @],
                              p, rst_needed)

pcb_abrt_timer_handler(T, p) ==
    IF T.pcbs[p].state = "CLOSED" THEN Fault(T) ELSE pcb_abort(T, p)

\* allocate_pcb, called with a non-empty unreferenced list: the PCB taken is
\* the last one of the list (AllocatedPcb), aborted if it is not CLOSED.
AllocatedPcb(T) == T.unref[Len(T.unref)]

allocate_pcb(T) ==
    IF ~pcb_is_in_unreferenced_list(T, AllocatedPcb(T)) THEN Fault(T)
    ELSE IF T.pcbs[AllocatedPcb(T)].state # "CLOSED"
    THEN pcb_abort([T EXCEPT !.obs.alloc = AllocatedPcb(T)], AllocatedPcb(T))
    ELSE [T EXCEPT !.obs.alloc = AllocatedPcb(T)]

RECURSIVE unlink_listener_from(_, _)
unlink_listener_from(T, p) ==
    IF p > NumTcpPcbs THEN T
    ELSE IF T.pcbs[p].state = "SYN_RCVD" /\ T.pcbs[p].lis
    THEN unlink_listener_from(pcb_abort_rst(T, p, FALSE), p + 1)
    ELSE unlink_listener_from(T, p + 1)

unlink_listener(T) == unlink_listener_from(T, 1)

\* create_connection once the PCB p has been allocated.
create_connection_pcb(T, p, c, key, iss, err) ==
    [T EXCEPT !.unref = ListRemove(@, p),
              !.age = ListRemove(@, p),
              !.obs.ret = "SUCCESS",
              !.pcbs[p] = pcb_send_syn(
                  [state |-> "SYN_SENT", con |-> c, lis |-> FALSE,
                   flags |-> {"WND_SCALE"}, snd_una |-> iss, snd_nxt |-> iss,
                   rcv_nxt |-> 0,
                   key |-> key, tim |-> {"AbrtTimer", "RtxTimer"},
                   out_after |-> 0], err),
              !.abrt[p] = SynSentTimeoutTicks,
              !.active = @ \cup {p},
              !.cons[c] = [NoConnection EXCEPT !.pcb = p]]

\* (With the PCB allocated before the port is looked for.)
create_connection_port_AllocFirst(T, scan, c, remote, iss, err) ==
    IF T.unref = <<>>
    THEN [T EXCEPT !.port = scan.next, !.obs.port = scan.port,
                   !.obs.ret = "NO_PCB_AVAIL"]
    ELSE IF scan.port = 0
    THEN [allocate_pcb(T) EXCEPT !.port = scan.next, !.obs.ret = "NO_PORT_AVAIL"]
    ELSE create_connection_pcb(
            allocate_pcb([T EXCEPT !.port = scan.next, !.obs.port = scan.port]),
            AllocatedPcb(T), c, ActiveKey(scan.port, remote), iss, err)

create_connection_port(T, scan, c, remote, iss, err) ==
    IF scan.port = 0 THEN [T EXCEPT !.port = scan.next, !.obs.ret = "NO_PORT_AVAIL"]
    ELSE IF T.unref = <<>>
    THEN [T EXCEPT !.port = scan.next, !.obs.port = scan.port,
                   !.obs.ret = "NO_PCB_AVAIL"]
    ELSE create_connection_pcb(
            allocate_pcb([T EXCEPT !.port = scan.next, !.obs.port = scan.port]),
            AllocatedPcb(T), c, ActiveKey(scan.port, remote), iss, err)

create_connection(T, c, remote, iss, err) ==
    create_connection_port([T EXCEPT !.obs.op = "create_connection"],
                           get_ephemeral_port(T, remote), c, remote, iss, err)

\* ---------------------------------------------------------------------------
\* TCP: the application's calls (TcpConnection, TcpListener)
\* ---------------------------------------------------------------------------

\* TcpConnection::startConnection.
StartConnection(c, remote, iss, err) ==
    /\ cons[c].pcb = PcbNull
    /\ \E T \in {create_connection(TcpNow, c, remote, iss, err)} : TcpStep(T)

\* TcpConnection::reset of a connection that has a PCB: the PCB is abandoned;
\* it is aborted if data is queued or received data was not processed.
con_reset(T, c, rst_needed) ==
    pcb_abandoned([T EXCEPT !.pcbs[T.cons[c].pcb].con = ConNull,
                            !.cons[c] = NoConnection],
                  T.cons[c].pcb, rst_needed)

ResetConnection(c, have_unprocessed_data) ==
    /\ cons[c].pcb # PcbNull
    /\ \E T \in {con_reset(TcpNow, c, cons[c].snd_buf > 0 \/ have_unprocessed_data)} :
          TcpStep(T)

\* TcpConnection::extendSendBuf.
con_extend(T, c, amount) ==
    pcb_snd_buf_extended([T EXCEPT !.cons[c].snd_buf = @ + amount,
                                   !.cons[c].snd_buf_cur = @ + amount,
                                   !.cons[c].queued = @ + amount],
                         T.cons[c].pcb)

ExtendSendBuf(c, amount, max_queued) ==
    /\ cons[c].pcb # PcbNull
    /\ pcbs[cons[c].pcb].state = "SYN_SENT" \/ snd_open_in_state(pcbs[cons[c].pcb].state)
    /\ cons[c].snd_buf + amount <= MaxSndBuf
    /\ cons[c].queued + amount <= max_queued
    /\ \E T \in {con_extend(TcpNow, c, amount)} : TcpStep(T)

\* TcpConnection::closeSending.
CloseSending(c) ==
    /\ cons[c].pcb # PcbNull
    /\ snd_open_in_state(pcbs[cons[c].pcb].state)
    /\ \E T \in {pcb_end_sending(TcpNow, cons[c].pcb)} : TcpStep(T)

\* TcpListener::startListening and TcpListener::reset.
StartListening ==
    /\ ~m_listener.m_listening
    /\ \E T \in {[TcpNow EXCEPT !.lis.m_listening = TRUE]} : TcpStep(T)

ResetListener ==
    /\ m_listener.m_listening
    /\ \E T \in {[unlink_listener(TcpNow) EXCEPT !.lis.m_listening = FALSE]} : TcpStep(T)

\* TcpConnection::acceptConnection, called from the listener's
\* connectionEstablished callback: the PCB on offer becomes the connection's.
con_accept(T, c, wnd) ==
    [T EXCEPT !.pcbs[T.lis.m_accept_pcb] =
                  [@ EXCEPT !.state = "ESTABLISHED", !.con = c, !.lis = FALSE,
                            !.tim = @ \ {"AbrtTimer"}],
              !.cons[c] = [NoConnection EXCEPT !.pcb = T.lis.m_accept_pcb,
                                               !.snd_wnd = wnd],
              !.lis.m_accept_pcb = PcbNull,
              !.lis.m_num_pcbs = @ - 1]

AcceptConnection(c, wnd) ==
    /\ m_listener.m_accept_pcb # PcbNull
    /\ cons[c].pcb = PcbNull
    /\ \E T \in {con_accept(TcpNow, c, wnd)} : TcpStep(T)

\* ---------------------------------------------------------------------------
\* TCP: timers
\* ---------------------------------------------------------------------------

Expire(T, p, timer) == [T EXCEPT !.pcbs[p].tim = @ \ {timer}]

AbrtTimerExpired(p) ==
    /\ tcp_cb.kind = "none"
    /\ "AbrtTimer" \in pcbs[p].tim
    /\ \E T \in {pcb_abrt_timer_handler(Expire(TcpNow, p, "AbrtTimer"), p)} : TcpStep(T)

OutputTimerExpired(p, o) ==
    /\ tcp_cb.kind = "none"
    /\ "OutputTimer" \in pcbs[p].tim
    /\ \E T \in {pcb_output(Expire(TcpNow, p, "OutputTimer"), p, FALSE, o)} : TcpStep(T)

RtxTimerExpired(p, o) ==
    /\ tcp_cb.kind = "none"
    /\ "RtxTimer" \in pcbs[p].tim
    /\ \E T \in {pcb_rtx_timer_handler(Expire(TcpNow, p, "RtxTimer"), p, o)} : TcpStep(T)

\* ---------------------------------------------------------------------------
\* TCP: input (IpTcpProto_input.h)
\* ---------------------------------------------------------------------------

\* The end of pcb_input: unless the PCB was aborted meanwhile, pending output
\* is done and m_current_pcb is cleared.
input_end(T, p, o) ==
    IF T.cur # p THEN T
    ELSE IF /\ "OUT_PENDING" \in T.pcbs[p].flags
            /\ can_output_in_state(T.pcbs[p].state)
            /\ pcb_has_snd_outstanding(T, p)
    THEN [pcb_output([T EXCEPT !.pcbs[p].flags = @ \ {"OUT_PENDING"}], p, FALSE, o)
             EXCEPT !.cur = PcbNull]
    ELSE [T EXCEPT !.pcbs[p].flags = @ \ {"OUT_PENDING"}, !.cur = PcbNull]

\* listen_input: a SYN for the listener takes a PCB into SYN_RCVD and is
\* answered with a SYN-ACK.
listen_input_pcb(T, p, remote, iss, irs, err) ==
    [T EXCEPT !.pcbs[p] = pcb_send_syn(
                  [state |-> "SYN_RCVD", con |-> ConNull, lis |-> TRUE,
                   flags |-> {}, snd_una |-> iss, snd_nxt |-> iss,
                   rcv_nxt |-> seq_add(irs, 1),
                   key |-> PassiveKey(remote), tim |-> {"AbrtTimer", "RtxTimer"},
                   out_after |-> 0], err),
              !.abrt[p] = SynRcvdTimeoutTicks,
              !.lis.m_num_pcbs = @ + 1,
              !.active = @ \cup {p},
              !.unref = move_unrefed_pcb_to_front(@, p),
              !.age = move_unrefed_pcb_to_front(@, p)]

listen_input(T, remote, iss, irs, err) ==
    IF T.unref = <<>> THEN T
    ELSE listen_input_pcb(allocate_pcb(T), AllocatedPcb(T), remote, iss, irs, err)

RecvSyn(remote, iss, irs, err) ==
    /\ tcp_cb.kind = "none"
    /\ m_listener.m_listening
    /\ find_pcb(TcpNow, PassiveKey(remote)) = PcbNull
    /\ \E T \in {listen_input(TcpNow, remote, iss, irs, err)} : TcpStep(T)

\* The SYN-ACK that acknowledges our SYN: the connection is established and
\* rcv_nxt is the sequence number after the peer's SYN (irs + 1).
syn_sent_input(T, p, irs, wnd, o) ==
    input_end([T EXCEPT !.cur = p,
                        !.pcbs[p].snd_una = T.pcbs[p].snd_nxt,
                        !.pcbs[p].rcv_nxt = seq_add(irs, 1),
                        !.pcbs[p].state = "ESTABLISHED",
                        !.pcbs[p].tim = @ \ {"AbrtTimer", "RtxTimer"},
                        !.pcbs[p].flags =
                            IF T.cons[T.pcbs[p].con].snd_buf > 0
                            THEN @ \cup {"OUT_PENDING"} ELSE @,
                        !.cons[T.pcbs[p].con].snd_wnd = wnd], p, o)

RecvSynAck(p, irs, wnd, o) ==
    /\ tcp_cb.kind = "none"
    /\ pcbs[p].state = "SYN_SENT"
    /\ pcbs[p].snd_nxt # pcbs[p].snd_una
    /\ \E T \in {syn_sent_input(TcpNow, p, irs, wnd, o)} : TcpStep(T)

\* The ACK of our SYN-ACK: the PCB leaves the unreferenced list and is offered
\* to the listener through its connectionEstablished callback.
syn_rcvd_input(T, p) ==
    [T EXCEPT !.cur = p,
              !.pcbs[p].snd_una = T.pcbs[p].snd_nxt,
              !.pcbs[p].tim = @ \ {"RtxTimer"},
              !.lis.m_accept_pcb = p,
              !.unref = ListRemove(@, p),
              !.age = ListRemove(@, p),
              !.cb = [kind |-> "connectionEstablished", pcb |-> p,
                      closing |-> FALSE, after |-> "accept", aborted |-> FALSE]]

RecvAckOfSynAck(p) ==
    /\ tcp_cb.kind = "none"
    /\ pcbs[p].state = "SYN_RCVD"
    /\ pcbs[p].snd_nxt # pcbs[p].snd_una
    /\ \E T \in {syn_rcvd_input(TcpNow, p)} : TcpStep(T)

\* An acceptable ACK of acked sequence counts with the window wnd: snd_una,
\* the send buffer and the window are updated, and if our FIN is now
\* acknowledged the state changes.
AckedData(T, p, acked) ==
    IF T.pcbs[p].con = ConNull THEN 0
    ELSE MinValue(acked, T.cons[T.pcbs[p].con].snd_buf)

\* pcb_update_snd_wnd, with the window that the segment announces.
pcb_update_snd_wnd(T, p, new_snd_wnd) ==
    IF T.pcbs[p].state \in {"CLOSED", "SYN_SENT", "SYN_RCVD"} THEN Fault(T)
    ELSE IF \/ T.pcbs[p].con = ConNull
            \/ ~can_output_in_state(T.pcbs[p].state)
            \/ new_snd_wnd = T.cons[T.pcbs[p].con].snd_wnd
    THEN T
    ELSE [T EXCEPT
            !.cons[T.pcbs[p].con].snd_wnd = new_snd_wnd,
            !.pcbs[p].flags =
                IF pcb_has_snd_outstanding(T, p) THEN @ \cup {"OUT_PENDING"} ELSE @,
            !.pcbs[p].tim =
                IF /\ pcb_has_snd_outstanding(T, p)
                   /\ (new_snd_wnd = 0) # (T.cons[T.pcbs[p].con].snd_wnd = 0)
                THEN @ \ {"RtxTimer"} ELSE @]

ack_acked(T, p, acked) ==
    [T EXCEPT !.cur = p,
              !.pcbs[p].snd_una = seq_add(@, acked),
              !.pcbs[p].tim = IF acked > 0 THEN @ \ {"RtxTimer"} ELSE @,
              !.pcbs[p].flags = IF acked > 0 THEN @ \ {"IDLE_TIMER"} ELSE @,
              !.cons = IF T.pcbs[p].con = ConNull THEN @
                       ELSE [@ EXCEPT ![T.pcbs[p].con] =
                               [@ EXCEPT !.snd_buf = @ - AckedData(T, p, acked),
                                         !.snd_buf_cur =
                                             MinValue(@, T.cons[T.pcbs[p].con].snd_buf
                                                         - AckedData(T, p, acked))]]]

ack_update(T, p, acked, wnd) == pcb_update_snd_wnd(ack_acked(T, p, acked), p, wnd)

ack_fin_acked(T, p, o) ==
    IF T.pcbs[p].state = "FIN_WAIT_1" THEN input_end(pcb_go_to_fin_wait_2(T, p), p, o)
    ELSE IF T.pcbs[p].state = "CLOSING" THEN
        IF T.pcbs[p].con = ConNull THEN input_end(pcb_go_to_time_wait(T, p), p, o)
        ELSE pcb_go_to_time_wait(T, p)
    ELSE pcb_abort_rst(T, p, FALSE)

ack_not_fin_acked(T, p, acked, o) ==
    IF pcb_has_snd_outstanding(T, p)
    THEN input_end([T EXCEPT !.pcbs[p].flags = @ \cup {"OUT_PENDING"}], p, o)
    ELSE IF acked = 0 THEN input_end(T, p, o)
    ELSE input_end([T EXCEPT !.pcbs[p].flags =
                                 (@ \ {"OUT_PENDING", "OUT_RETRY"}) \cup {"IDLE_TIMER"},
                             !.pcbs[p].tim = (@ \ {"OutputTimer"}) \cup {"RtxTimer"}],
                   p, o)

ack_input(T, p, acked, o) ==
    IF /\ acked > 0
       /\ pcb_fin_acked(T.pcbs[p])
       /\ T.pcbs[p].state \in {"FIN_WAIT_1", "CLOSING", "LAST_ACK"}
    THEN ack_fin_acked(T, p, o)
    ELSE ack_not_fin_acked(T, p, acked, o)

RecvAck(p, acked, wnd, o) ==
    /\ tcp_cb.kind = "none"
    /\ can_output_in_state(pcbs[p].state)
    /\ acked <= seq_diff(pcbs[p].snd_nxt, pcbs[p].snd_una)
    /\ acked = 0 \/ pcb_has_snd_outstanding(TcpNow, p)
    /\ \E T \in {ack_input(ack_update(TcpNow, p, acked, wnd), p, acked, o)} : TcpStep(T)

\* Data received in order: rcv_nxt advances over it.
data_input_Rewinds(T, p, len, o) ==
    input_end([T EXCEPT !.cur = p, !.pcbs[p].rcv_nxt = seq_add(@, SeqMod - len)], p, o)

data_input(T, p, len, o) ==
    input_end([T EXCEPT !.cur = p, !.pcbs[p].rcv_nxt = seq_add(@, len)], p, o)

RecvData(p, len, o) ==
    /\ tcp_cb.kind = "none"
    /\ pcbs[p].state \in {"ESTABLISHED", "FIN_WAIT_1", "FIN_WAIT_2"}
    /\ \E T \in {data_input(TcpNow, p, len, o)} : TcpStep(T)

\* The peer's FIN, received in order: rcv_nxt advances over it.
fin_received(T, p) ==
    [T EXCEPT !.cur = p, !.pcbs[p].rcv_nxt = seq_add(@, 1)]

fin_input(T, p, o) ==
    IF T.pcbs[p].state = "ESTABLISHED"
    THEN input_end([fin_received(T, p) EXCEPT !.pcbs[p].state = "CLOSE_WAIT"], p, o)
    ELSE IF T.pcbs[p].state = "FIN_WAIT_1"
    THEN input_end([fin_received(T, p) EXCEPT !.pcbs[p].state = "CLOSING"], p, o)
    ELSE IF T.pcbs[p].con = ConNull
    THEN input_end(pcb_go_to_time_wait(fin_received(T, p), p), p, o)
    ELSE pcb_go_to_time_wait(fin_received(T, p), p)

RecvFin(p, o) ==
    /\ tcp_cb.kind = "none"
    /\ pcbs[p].state \in {"ESTABLISHED", "FIN_WAIT_1", "FIN_WAIT_2"}
    /\ \E T \in {fin_input(TcpNow, p, o)} : TcpStep(T)

\* An acceptable RST.
RecvRst(p) ==
    /\ tcp_cb.kind = "none"
    /\ pcbs[p].state # "CLOSED"
    /\ \E T \in {pcb_abort_rst([TcpNow EXCEPT !.cur = p], p, FALSE)} : TcpStep(T)

\* ---------------------------------------------------------------------------
\* TCP: return from a user callback
\* ---------------------------------------------------------------------------

\* connectionAborted returns into pcb_unlink_con, which returns into
\* pcb_abort or pcb_go_to_time_wait.
aborted_return(T, p, o) ==
    IF T.cb.after = "pcb_abort"
    THEN pcb_abort_end(pcb_unlink_con_end([T EXCEPT !.cb = NoCallback], p, TRUE), p)
    ELSE input_end(
            pcb_go_to_time_wait_end(
                pcb_unlink_con_end([T EXCEPT !.cb = NoCallback], p, FALSE), p), p, o)

\* The listener's connectionEstablished returns into pcb_input: a PCB that
\* was not accepted, or was accepted and abandoned, is aborted.
accept_return(T, p, o) ==
    IF T.cur # p THEN [T EXCEPT !.cb = NoCallback]
    ELSE IF T.pcbs[p].state = "SYN_RCVD" \/ T.pcbs[p].con = ConNull
    THEN pcb_abort_rst([T EXCEPT !.cb = NoCallback], p, TRUE)
    ELSE input_end([T EXCEPT !.cb = NoCallback], p, o)

CallbackReturn(o) ==
    /\ tcp_cb.kind # "none"
    /\ \E T \in {IF tcp_cb.kind = "connectionAborted"
                 THEN aborted_return(TcpNow, tcp_cb.pcb, o)
                 ELSE accept_return(TcpNow, tcp_cb.pcb, o)} : TcpStep(T)

\* ---------------------------------------------------------------------------
\* TCP: the state machine
\* ---------------------------------------------------------------------------

\* No connection exists or is being taken down.
AllClosed == \A p \in Pcbs : pcbs[p].state = "CLOSED"

\* One connection at a time, opened by the application or by the peer and
\* held by the first TcpConnection, with data, closed windows and failing
\* transmissions. The application calls the
\* stack from the event loop or from a callback.
NextTcpSend ==
    \/ \E iss \in IssChoices, err \in BOOLEAN : AllClosed /\ StartConnection(1, 1, iss, err)
    \/ \E u \in BOOLEAN : ResetConnection(1, u)
    \/ \E amount \in 1..MaxSndBuf : ExtendSendBuf(1, amount, MaxQueued)
    \/ CloseSending(1)
    \/ AllClosed /\ StartListening
    \/ \E wnd \in SndWnds : AcceptConnection(1, wnd)
    \/ \E p \in Pcbs : AbrtTimerExpired(p)
    \/ \E p \in Pcbs, o \in OutParams \cup OutErrParams : OutputTimerExpired(p, o)
    \/ \E p \in Pcbs, o \in OutParams : RtxTimerExpired(p, o)
    \/ \E r \in PassiveRemotes, iss \in IssChoices, irs \in IrsChoices, err \in BOOLEAN :
          AllClosed /\ RecvSyn(r, iss, irs, err)
    \/ \E p \in Pcbs, irs \in IrsChoices, wnd \in SndWnds, o \in OutParams :
          RecvSynAck(p, irs, wnd, o)
    \/ \E p \in Pcbs : RecvAckOfSynAck(p)
    \/ \E p \in Pcbs, acked \in 0..(MaxSndBuf + 1), wnd \in SndWnds, o \in OutParams :
          RecvAck(p, acked, wnd, o)
    \/ \E p \in Pcbs, o \in OutParams : RecvFin(p, o)
    \/ \E p \in Pcbs : RecvRst(p)
    \/ \E o \in OutParams : CallbackReturn(o)

SpecTcpSend == Init /\ [][NextTcpSend]_vars

\* Several connections at a time, competing for the PCBs, with nothing to
\* send but their SYN and FIN, an open window and no failing transmission of a
\* FIN.
OpenWnd == MaxSndBuf + 1
PlainOut ==
    [fail_at |-> 0, cwnd |-> OpenWnd, pushed |-> TRUE, rto |-> InitialRtxTime,
     err |-> "BUFFER_FULL", rtt_pending |-> FALSE, rtt_off |-> 0]

NextTcp ==
    \/ \E c \in Cons, iss \in IssChoices, err \in BOOLEAN :
          StartConnection(c, RemoteOf(c), iss, err)
    \/ \E c \in Cons, u \in BOOLEAN : ResetConnection(c, u)
    \/ \E c \in Cons : CloseSending(c)
    \/ StartListening
    \/ ResetListener
    \/ \E c \in Cons : AcceptConnection(c, OpenWnd)
    \/ \E p \in Pcbs : AbrtTimerExpired(p)
    \/ \E p \in Pcbs : OutputTimerExpired(p, PlainOut)
    \/ \E p \in Pcbs : RtxTimerExpired(p, PlainOut)
    \/ \E r \in PassiveRemotes, iss \in IssChoices, irs \in IrsChoices, err \in BOOLEAN :
          RecvSyn(r, iss, irs, err)
    \/ \E p \in Pcbs, irs \in IrsChoices : RecvSynAck(p, irs, OpenWnd, PlainOut)
    \/ \E p \in Pcbs : RecvAckOfSynAck(p)
    \/ \E p \in Pcbs : RecvAck(p, 1, OpenWnd, PlainOut)
    \/ \E p \in Pcbs : RecvFin(p, PlainOut)
    \/ \E p \in Pcbs : RecvRst(p)
    \/ CallbackReturn(PlainOut)

SpecTcp == Init /\ [][NextTcp]_vars

\* One connection at a time, opened by the application or by the peer, whose
\* peer starts at any sequence number and sends data and its FIN.
NextTcpRecv ==
    \/ \E iss \in IssChoices, err \in BOOLEAN : AllClosed /\ StartConnection(1, 1, iss, err)
    \/ \E u \in BOOLEAN : ResetConnection(1, u)
    \/ CloseSending(1)
    \/ AllClosed /\ StartListening
    \/ AcceptConnection(1, OpenWnd)
    \/ \E p \in Pcbs : AbrtTimerExpired(p)
    \/ \E p \in Pcbs : OutputTimerExpired(p, PlainOut)
    \/ \E p \in Pcbs : RtxTimerExpired(p, PlainOut)
    \/ \E r \in PassiveRemotes, iss \in IssChoices, irs \in AllIrs, err \in BOOLEAN :
          AllClosed /\ RecvSyn(r, iss, irs, err)
    \/ \E p \in Pcbs, irs \in AllIrs : RecvSynAck(p, irs, OpenWnd, PlainOut)
    \/ \E p \in Pcbs : RecvAckOfSynAck(p)
    \/ \E p \in Pcbs : RecvAck(p, 1, OpenWnd, PlainOut)
    \/ \E p \in Pcbs, len \in 1..MaxRcvLen : RecvData(p, len, PlainOut)
    \/ \E p \in Pcbs : RecvFin(p, PlainOut)
    \/ \E p \in Pcbs : RecvRst(p)
    \/ CallbackReturn(PlainOut)

SpecTcpRecv == Init /\ [][NextTcpRecv]_vars

\* ---------------------------------------------------------------------------
\* Congestion control of one connection (IpTcpProto_output.h). The record cc
\* holds what the congestion-control code reads and writes: the PCB's state,
\* snd_mss, flags, num_dupack, snd_una and snd_nxt, whether it has a
\* TcpConnection, and the connection's cwnd, ssthresh, cwnd_acked and recover.
\* SeqType has SeqBits bits here, so seq_add_sat saturates at SeqTypeMax.

SeqTypeMax == SeqMod - 1
\* The largest window (2^30 - 1 of a 32-bit SeqType): the initial ssthresh
\* and the limit of what is in flight.
MaxWindow == 2 ^ (SeqBits - 1) - 1
FastRtxDupAcks == 3
MaxAdditionaDupAcks == 2
MinAllowedMss == 1
base_snd_mss == 2
Ip4TcpHeaderSize == 40
MinMTU == MinAllowedMss + Ip4TcpHeaderSize
Pmtus == MinMTU..(base_snd_mss + Ip4TcpHeaderSize + 1)

seq_add_sat(a, b) == IF a + b > SeqTypeMax THEN SeqTypeMax ELSE a + b

\* TcpUtils::calc_initial_cwnd (RFC 5681, section 3.1): 2, 3 or 4 segments,
\* fewer for a larger MSS.
InitCwndMssLow == 1
InitCwndMssHigh == 2
calc_initial_cwnd(mss) ==
    IF mss > InitCwndMssHigh THEN 2 * mss
    ELSE IF mss > InitCwndMssLow THEN 3 * mss
    ELSE 4 * mss

pcb_calc_snd_mss_from_pmtu(pmtu) == MinValue(base_snd_mss, pmtu - Ip4TcpHeaderSize)

CcFault(c) == [c EXCEPT !.fault = TRUE]
CcFlight(c) == seq_diff(c.snd_nxt, c.snd_una)

\* create_connection: the PCB goes to SYN_SENT with its TcpConnection; the
\* PMTU is kept in snd_mss until the SYN-ACK arrives.
cc_connect(c, pmtu, iss) ==
    [c EXCEPT !.state = "SYN_SENT", !.con = TRUE, !.snd_mss = pmtu,
              !.flags = {}, !.num_dupack = 0, !.snd_una = iss, !.snd_nxt = iss]

\* The handshake has completed on an actively opened connection: snd_mss is
\* resolved from the PMTU and the initial cwnd is installed.
cc_established(c, pmtu, iss) ==
    [c EXCEPT !.state = "ESTABLISHED", !.con = TRUE,
              !.snd_mss = pcb_calc_snd_mss_from_pmtu(pmtu),
              !.cwnd = calc_initial_cwnd(pcb_calc_snd_mss_from_pmtu(pmtu)),
              !.ssthresh = MaxWindow, !.cwnd_acked = 0,
              !.flags = {"CWND_INIT"}, !.num_dupack = 0, !.recover = 0,
              !.snd_una = seq_add(iss, 1), !.snd_nxt = seq_add(iss, 1)]

pcb_increase_cwnd_acked(c, acked) ==
    [c EXCEPT !.cwnd = seq_add_sat(@, MinValue(acked, c.snd_mss)),
              !.flags = @ \ {"CWND_INIT"}]

pcb_update_ssthresh_for_rtx(c) ==
    [c EXCEPT !.ssthresh = MaxValue(CcFlight(c) \div 2, 2 * c.snd_mss)]

\* pcb_output_handle_acked, first part: RTX_ACTIVE is cleared; if this ACK
\* ends the round-trip-time measurement (RTT_PENDING and rtt_test_seq before
\* ack_num, an input here), CWND_INCRD is cleared.
handle_acked_rtt(c, rtt_ends) ==
    [c EXCEPT !.flags = (@ \ {"RTX_ACTIVE"}) \ (IF rtt_ends /\ c.con THEN {"CWND_INCRD"} ELSE {})]

\* Congestion avoidance: cwnd grows by one segment once cwnd bytes were acked.
handle_acked_avoidance(c, acked) ==
    IF "CWND_INCRD" \in c.flags THEN c
    ELSE IF seq_add_sat(c.cwnd_acked, acked) >= c.cwnd
    THEN [pcb_increase_cwnd_acked(c, seq_add_sat(c.cwnd_acked, acked))
             EXCEPT !.cwnd_acked = 0, !.flags = @ \cup {"CWND_INCRD"}]
    ELSE [c EXCEPT !.cwnd_acked = seq_add_sat(@, acked)]

\* Fast recovery ends: cwnd is deflated.
handle_acked_exit_recovery(c, ack_num) ==
    [(IF c.ssthresh < c.snd_mss THEN CcFault(c) ELSE c)
        EXCEPT !.cwnd = MinValue(c.ssthresh,
                            seq_add(MaxValue(seq_diff(c.snd_nxt, ack_num), c.snd_mss),
                                    c.snd_mss)),
               !.num_dupack = 0]

\* (Deflating by all that was acked.)
handle_acked_partial_Unguarded(c, acked) ==
    [c EXCEPT !.cwnd = IF @ > acked THEN @ - acked ELSE 0]

\* A partial ACK in fast recovery: the segment at the start of the send
\* buffer is retransmitted and cwnd is deflated by what was acked, not below
\* snd_mss.
handle_acked_partial(c, acked) ==
    [(IF c.cwnd < c.snd_mss THEN CcFault(c) ELSE c)
        EXCEPT !.rtx = Append(@, c.snd_una),
               !.cwnd =
            IF acked >= c.snd_mss
            THEN seq_add_sat(c.cwnd - MinValue(seq_diff(c.cwnd, c.snd_mss), acked), c.snd_mss)
            ELSE c.cwnd - MinValue(seq_diff(c.cwnd, c.snd_mss), acked)]

handle_acked_cc(c, ack_num, acked) ==
    IF ~c.con THEN [c EXCEPT !.num_dupack = 0]
    ELSE IF c.num_dupack < FastRtxDupAcks THEN
        IF c.cwnd <= c.ssthresh
        THEN pcb_increase_cwnd_acked([c EXCEPT !.num_dupack = 0], acked)
        ELSE handle_acked_avoidance([c EXCEPT !.num_dupack = 0], acked)
    ELSE IF "RECOVER" \notin c.flags \/ ~seq_lt2(ack_num, c.recover)
    THEN handle_acked_exit_recovery(c, ack_num)
    ELSE handle_acked_partial(c, acked)

\* (Never clearing RECOVER.)
handle_acked_recover_Keep(c, ack_num) == c

handle_acked_recover(c, ack_num) ==
    IF "RECOVER" \in c.flags /\ c.con /\ seq_lt2(c.recover, ack_num)
    THEN [c EXCEPT !.flags = @ \ {"RECOVER"}]
    ELSE c

pcb_output_handle_acked(c, ack_num, acked, rtt_ends) ==
    handle_acked_recover(
        handle_acked_cc(handle_acked_rtt(c, rtt_ends), ack_num, acked), ack_num)

\* An ACK of new data: pcb_output_handle_acked, then snd_una advances; when
\* nothing is left outstanding (nothing in flight, nothing queued) the
\* RtxTimer becomes the idle timer.
cc_ack_input(c, acked, rtt_ends, idle) ==
    [pcb_output_handle_acked(c, seq_add(c.snd_una, acked), acked, rtt_ends)
        EXCEPT !.snd_una = seq_add(c.snd_una, acked),
               !.flags = IF idle /\ c.con /\ seq_add(c.snd_una, acked) = c.snd_nxt
                         THEN @ \cup {"IDLE_TIMER"} ELSE @]

\* pcb_output(pcb, true): one segment is sent from the start of the send
\* buffer, at snd_una. With a TcpConnection it is as long as snd_mss allows
\* (the peer's window is wide enough here); queued is the unsent data
\* that follows what is in flight, and what the segment takes of it moves
\* snd_nxt (pcb_output_segment). Without one it is the FIN.
RtxSegLen(c, queued) == MinValue(CcFlight(c) + queued, c.snd_mss)
RtxNewData(c, queued) == MaxValue(RtxSegLen(c, queued) - CcFlight(c), 0)

cc_output_rtx(c, queued) ==
    IF c.con
    THEN [c EXCEPT !.rtx = Append(@, c.snd_una),
                   !.snd_nxt = seq_add(@, RtxNewData(c, queued)),
                   !.sent = @ + RtxNewData(c, queued)]
    ELSE [c EXCEPT !.rtx = Append(@, c.snd_una),
                   !.snd_nxt = IF c.snd_nxt = c.snd_una THEN seq_add(@, 1) ELSE @]

\* (Taking recover before the retransmission has moved snd_nxt.)
fast_rtx_enter_OldSndNxt(c, old) ==
    [pcb_update_ssthresh_for_rtx(c)
        EXCEPT !.flags = (@ \cup {"RECOVER", "OUT_PENDING"}) \ {"CWND_INIT"},
               !.recover = old.snd_nxt,
               !.cwnd = seq_add_sat(pcb_update_ssthresh_for_rtx(c).ssthresh,
                                    3 * c.snd_mss)]

\* pcb_fast_rtx_dup_acks_received after the retransmission, which left the
\* PCB as c (old before it): recover, ssthresh and cwnd are set.
fast_rtx_enter(c, old) ==
    [pcb_update_ssthresh_for_rtx(c)
        EXCEPT !.flags = (@ \cup {"RECOVER", "OUT_PENDING"}) \ {"CWND_INIT"},
               !.recover = c.snd_nxt,
               !.cwnd = seq_add_sat(pcb_update_ssthresh_for_rtx(c).ssthresh,
                                    3 * c.snd_mss)]

pcb_fast_rtx_dup_acks_received(c, queued) ==
    IF "RECOVER" \in c.flags THEN [c EXCEPT !.num_dupack = @ - 1]
    ELSE IF ~c.con THEN cc_output_rtx(c, queued)
    ELSE fast_rtx_enter(cc_output_rtx(c, queued), c)

pcb_extra_dup_ack_received(c) ==
    IF c.con THEN [c EXCEPT !.cwnd = seq_add_sat(@, c.snd_mss),
                            !.flags = @ \cup {"OUT_PENDING"}]
    ELSE c

\* A duplicate ACK: num_dupack counts up to FastRtxDupAcks +
\* MaxAdditionaDupAcks; the third starts fast retransmit, later ones inflate.
cc_dup_ack_input(c, queued) ==
    IF c.num_dupack >= FastRtxDupAcks + MaxAdditionaDupAcks THEN c
    ELSE IF c.num_dupack + 1 = FastRtxDupAcks
    THEN pcb_fast_rtx_dup_acks_received([c EXCEPT !.num_dupack = @ + 1], queued)
    ELSE IF c.num_dupack + 1 > FastRtxDupAcks
    THEN pcb_extra_dup_ack_received([c EXCEPT !.num_dupack = @ + 1])
    ELSE [c EXCEPT !.num_dupack = @ + 1]

\* pcb_rtx_timer_handler_core, idle timeout.
cc_idle_timeout(c) ==
    [(IF CcFlight(c) # 0 \/ ~c.con THEN CcFault(c) ELSE c)
        EXCEPT !.flags = IF c.cwnd >= calc_initial_cwnd(c.snd_mss)
                         THEN (@ \ {"IDLE_TIMER"}) \cup {"CWND_INIT"}
                         ELSE @ \ {"IDLE_TIMER"},
               !.cwnd = IF @ >= calc_initial_cwnd(c.snd_mss)
                        THEN calc_initial_cwnd(c.snd_mss) ELSE @,
               !.cwnd_acked = 0]

\* (Recomputing ssthresh at every retransmission timeout.)
cc_rtx_timeout_AlwaysSsthresh(c) ==
    [pcb_update_ssthresh_for_rtx(c)
        EXCEPT !.flags = ((@ \cup {"RTX_ACTIVE", "RECOVER"}) \ {"CWND_INIT"}),
               !.cwnd = c.snd_mss,
               !.cwnd_acked = 0,
               !.recover = c.snd_nxt,
               !.num_dupack = 0]

\* pcb_rtx_timer_handler_core, retransmission of data or FIN while not
\* abandoned and the window is open: the changes made before everything is
\* requeued and pcb_output_active is called.
cc_rtx_timeout(c) ==
    [(IF "RTX_ACTIVE" \in c.flags THEN c ELSE pcb_update_ssthresh_for_rtx(c))
        EXCEPT !.flags = ((@ \cup {"RTX_ACTIVE", "RECOVER"}) \ {"CWND_INIT"}),
               !.cwnd = c.snd_mss,
               !.cwnd_acked = 0,
               !.recover = c.snd_nxt,
               !.num_dupack = 0]

\* pcb_output_active(pcb, false) as the retransmission timeout calls it, with
\* everything requeued and cwnd equal to snd_mss: one segment is sent from the
\* start of the send buffer, at snd_una, and takes along unsent data as far as
\* snd_mss allows; or nothing is sent (sends is false) because all the data
\* is less than a segment and sending it may be delayed.
cc_rtx_output(c, queued, sends) ==
    IF sends THEN cc_output_rtx(c, queued) ELSE c

\* pcb_rtx_timer_handler_core, retransmission of data or FIN while not
\* abandoned and the window is open, as a whole.
cc_rtx_handler(c, queued, sends) ==
    cc_rtx_output(cc_rtx_timeout(c), queued, sends)

\* (Leaving cwnd alone when snd_mss changes.)
pmtu_changed_cwnd_Unchanged(c) == c

\* pcb_pmtu_changed, the part after snd_mss and ssthresh were updated.
pmtu_changed_cwnd(c) ==
    IF "CWND_INIT" \in c.flags
    THEN [c EXCEPT !.cwnd = calc_initial_cwnd(c.snd_mss)]
    ELSE IF c.cwnd < c.snd_mss \/ "RTX_ACTIVE" \in c.flags
    THEN [c EXCEPT !.cwnd = c.snd_mss]
    ELSE c

\* (Scheduling output when snd_mss has changed.)
pcb_pmtu_changed_PushOutput(c, pmtu) ==
    IF ~c.con \/ pmtu < MinMTU \/ c.state \in {"CLOSED", "SYN_RCVD", "TIME_WAIT"}
    THEN CcFault(c)
    ELSE IF c.state = "SYN_SENT" THEN [c EXCEPT !.snd_mss = pmtu]
    ELSE IF ~can_output_in_state(c.state) THEN c
    ELSE IF pcb_calc_snd_mss_from_pmtu(pmtu) = c.snd_mss THEN c
    ELSE pmtu_changed_cwnd(
             [c EXCEPT !.snd_mss = pcb_calc_snd_mss_from_pmtu(pmtu),
                       !.ssthresh = MaxValue(@, pcb_calc_snd_mss_from_pmtu(pmtu)),
                       !.flags = @ \cup {"OUT_PENDING"}])

pcb_pmtu_changed(c, pmtu) ==
    IF ~c.con \/ pmtu < MinMTU \/ c.state \in {"CLOSED", "SYN_RCVD", "TIME_WAIT"}
    THEN CcFault(c)
    ELSE IF c.state = "SYN_SENT" THEN [c EXCEPT !.snd_mss = pmtu]
    ELSE IF ~can_output_in_state(c.state) THEN c
    ELSE IF pcb_calc_snd_mss_from_pmtu(pmtu) = c.snd_mss THEN c
    ELSE pmtu_changed_cwnd(
             [c EXCEPT !.snd_mss = pcb_calc_snd_mss_from_pmtu(pmtu),
                       !.ssthresh = MaxValue(@, pcb_calc_snd_mss_from_pmtu(pmtu))])

\* pcb_output_active sending len bytes of new data within min(snd_wnd, cwnd).
cc_output_active(c, len) ==
    [(IF c.cwnd < c.snd_mss THEN CcFault(c) ELSE c)
        EXCEPT !.snd_nxt = seq_add(@, len), !.flags = @ \ {"IDLE_TIMER"}]

\* pcb_abandoned of a connection that is not aborted: pcb_end_sending queues
\* the FIN.
cc_abandoned(c) ==
    [c EXCEPT !.con = FALSE, !.state = "FIN_WAIT_1",
              !.flags = (@ \ {"IDLE_TIMER"}) \cup {"FIN_PENDING"}]

\* pcb_output_abandoned sending the queued FIN.
cc_output_abandoned(c) ==
    [c EXCEPT !.flags = (@ \ {"FIN_PENDING"}) \cup {"FIN_SENT"},
              !.snd_nxt = IF c.snd_nxt = c.snd_una THEN seq_add(@, 1) ELSE @]

\* The end of pcb_input: the output that a handler asked for with OUT_PENDING
\* is done (the data it sends is CcSend).
cc_input_end(c) == [c EXCEPT !.flags = @ \ {"OUT_PENDING"}]

CcStep(c) ==
    /\ cc' = [cc_input_end(c) EXCEPT !.rtx = <<>>]
    /\ UNCHANGED <<pcbs, cons, m_listener, m_unrefed_pcbs_list, m_pcb_index_active,
                   m_pcb_index_timewait, m_current_pcb, m_next_ephemeral_port,
                   tcp_cb, tcp_fault, unref_age, abrt_after, lq, snd, heap>>
    /\ UNCHANGED reass_vars

CcCanOutput == cc.state \in {"ESTABLISHED", "FIN_WAIT_1"} /\ ~cc.fault

CcConnect(pmtu, iss) ==
    /\ cc.state = "CLOSED"
    /\ CcStep(cc_connect(cc, pmtu, iss))

\* The SYN-ACK arrives: the PMTU kept in snd_mss is resolved.
CcEstablished ==
    /\ cc.state = "SYN_SENT" /\ ~cc.fault
    /\ CcStep(cc_established(cc, cc.snd_mss, cc.snd_una))

CcSend(len) ==
    /\ CcCanOutput /\ cc.con
    /\ CcFlight(cc) + len <= MinValue(MaxWindow, cc.cwnd)
    /\ cc.sent + len <= MaxCcSent
    /\ CcStep([cc_output_active(cc, len) EXCEPT !.sent = @ + len])

CcRecvAck(acked, rtt_ends, idle) ==
    /\ CcCanOutput
    /\ acked <= CcFlight(cc)
    /\ CcStep(cc_ack_input(cc, acked, rtt_ends, idle))

\* A duplicate ACK; queued bytes of unsent data follow what is in flight
\* (it matters when the ACK makes the head segment be sent again).
CcRecvDupAck(queued) ==
    /\ CcCanOutput
    /\ CcFlight(cc) > 0
    /\ queued > 0 =>
          /\ cc.con /\ cc.num_dupack + 1 = FastRtxDupAcks /\ "RECOVER" \notin cc.flags
          /\ RtxNewData(cc, queued) = queued
          /\ cc.sent + queued <= MaxCcSent
    /\ CcStep(cc_dup_ack_input(cc, queued))

\* The RtxTimer expires on a PCB that has its TcpConnection and an open
\* send window; queued bytes of unsent data follow what is in flight.
RtoInput(queued, sends) ==
    /\ queued > 0 => /\ sends
                     /\ RtxNewData(cc, queued) = queued
                     /\ cc.sent + queued <= MaxCcSent
    /\ ~sends => CcFlight(cc) + queued < cc.snd_mss

CcRtxTimerExpired(queued, sends) ==
    /\ CcCanOutput /\ cc.con
    /\ IF "IDLE_TIMER" \in cc.flags
       THEN queued = 0 /\ sends /\ CcStep(cc_idle_timeout(cc))
       ELSE /\ CcFlight(cc) > 0
            /\ RtoInput(queued, sends)
            /\ CcStep(cc_rtx_handler(cc, queued, sends))

CcPmtuChanged(pmtu) ==
    /\ cc.state \in {"SYN_SENT", "ESTABLISHED", "FIN_WAIT_1"} /\ ~cc.fault /\ cc.con
    /\ CcStep(pcb_pmtu_changed(cc, pmtu))

\* TcpConnection::reset with nothing queued in the send buffer (with data
\* queued the PCB is aborted).
CcAbandoned ==
    /\ CcCanOutput /\ cc.con
    /\ CcFlight(cc) = 0
    /\ CcStep(cc_abandoned(cc))

CcFinOutput ==
    /\ CcCanOutput /\ ~cc.con
    /\ "FIN_PENDING" \in cc.flags
    /\ CcStep(cc_output_abandoned(cc))

NextCc ==
    \/ \E pmtu \in Pmtus, iss \in IssChoices : CcConnect(pmtu, iss)
    \/ CcEstablished
    \/ \E len \in 1..MaxWindow : CcSend(len)
    \/ \E acked \in 1..MaxWindow, rtt_ends \in BOOLEAN, idle \in BOOLEAN :
          CcRecvAck(acked, rtt_ends, idle)
    \/ \E queued \in 0..(base_snd_mss - 1) : CcRecvDupAck(queued)
    \/ \E queued \in 0..(base_snd_mss - 1), sends \in BOOLEAN :
          CcRtxTimerExpired(queued, sends)
    \/ \E pmtu \in Pmtus : CcPmtuChanged(pmtu)
    \/ CcAbandoned
    \/ CcFinOutput

SpecCc == Init /\ [][NextCc]_vars

\* ---------------------------------------------------------------------------
\* TCP: properties
\* ---------------------------------------------------------------------------

Outstanding(p) == seq_diff(pcbs[p].snd_nxt, pcbs[p].snd_una)
Referenced(p) == \E c \in Cons : cons[c].pcb = p
TimesListed(p) ==
    Cardinality({i \in 1..Len(m_unrefed_pcbs_list) : m_unrefed_pcbs_list[i] = p})

\* The PCB whose connection is being told that it was aborted, and the PCB
\* that is on offer to the listener.
BeingUnlinked(p) == tcp_cb.kind = "connectionAborted" /\ tcp_cb.pcb = p
OnOffer(p) == m_listener.m_accept_pcb = p

\* C8 (T1): in every reachable state every PCB that is not CLOSED has
\* snd_una <= snd_nxt in sequence-number order: snd_nxt - snd_una, taken
\* modulo the sequence space, is below half of the sequence space.
C8_SndUnaNotAfterSndNxt ==
    \A p \in Pcbs : pcbs[p].state # "CLOSED" => Outstanding(p) < SeqMod \div 2

\* C8 witness: a PCB in FIN_WAIT_1 has MaxSndBuf bytes and its FIN in flight,
\* and snd_nxt has wrapped around while snd_una has not.
C8_Witness ==
    \E p \in Pcbs :
        /\ pcbs[p].state = "FIN_WAIT_1"
        /\ "FIN_SENT" \in pcbs[p].flags
        /\ Outstanding(p) = MaxSndBuf + 1
        /\ pcbs[p].snd_nxt < pcbs[p].snd_una

\* C9 (T3 as claimed): in every reachable state a PCB whose FIN_SENT flag is
\* set has snd_nxt - snd_una >= 1.
C9_FinSentImpliesOutstanding ==
    \A p \in Pcbs : "FIN_SENT" \in pcbs[p].flags => Outstanding(p) >= 1

\* C9 (T3 as the code keeps it): FIN_SENT stays set when the FIN has been
\* acknowledged. A PCB with FIN_SENT set has snd_nxt - snd_una >= 1 while it
\* is in FIN_WAIT_1, CLOSING or LAST_ACK and is not being unlinked from its
\* connection, and has snd_nxt = snd_una in FIN_WAIT_2 and TIME_WAIT.
C9_FinSentOutstandingUntilAcked ==
    \A p \in Pcbs :
        "FIN_SENT" \in pcbs[p].flags =>
            /\ ( /\ pcbs[p].state \in {"FIN_WAIT_1", "CLOSING", "LAST_ACK"}
                 /\ ~BeingUnlinked(p) )
               => Outstanding(p) >= 1
            /\ pcbs[p].state \in {"FIN_WAIT_2", "TIME_WAIT"} => Outstanding(p) = 0

\* C9 witness: the FIN of a PCB was sent and acknowledged; the PCB is in
\* FIN_WAIT_2 with FIN_SENT set and snd_nxt = snd_una.
C9_Witness ==
    \E p \in Pcbs :
        /\ pcbs[p].state = "FIN_WAIT_2"
        /\ "FIN_SENT" \in pcbs[p].flags
        /\ pcbs[p].snd_nxt = pcbs[p].snd_una

\* C10 (T4 as claimed): in every reachable state, callbacks included, every
\* PCB is either referenced by a connection or once on the unreferenced list,
\* never both and never neither, so the two groups add up to NumTcpPcbs.
C10_EveryPcbInOneGroup ==
    /\ \A p \in Pcbs : (Referenced(p) /\ TimesListed(p) = 0)
                       \/ (~Referenced(p) /\ TimesListed(p) = 1)
    /\ Cardinality({p \in Pcbs : Referenced(p)}) + Len(m_unrefed_pcbs_list) = NumTcpPcbs

\* C10 (T4 as the code keeps it): a PCB is in neither group while its
\* connection's connectionAborted callback runs inside pcb_unlink_con and
\* while it is on offer to the listener (m_accept_pcb); every other PCB is in
\* exactly one of the groups, and it is on the list exactly when
\* pcb_is_in_unreferenced_list says so. The two groups add up to NumTcpPcbs
\* less the PCBs that are being unlinked or on offer.
C10_EveryPcbInOneGroupOrInTransit ==
    /\ \A p \in Pcbs :
          IF BeingUnlinked(p) \/ OnOffer(p)
          THEN ~Referenced(p) /\ TimesListed(p) = 0
          ELSE /\ (Referenced(p) /\ TimesListed(p) = 0)
                  \/ (~Referenced(p) /\ TimesListed(p) = 1)
               /\ pcb_is_in_unreferenced_list(TcpNow, p) <=> TimesListed(p) = 1
    /\ Cardinality({p \in Pcbs : Referenced(p)}) + Len(m_unrefed_pcbs_list)
          = NumTcpPcbs - Cardinality({p \in Pcbs : BeingUnlinked(p) \/ OnOffer(p)})

\* C10 witness: while connectionAborted runs for one PCB, which is in neither
\* group, the application has opened a new connection on the other PCB.
C10_Witness ==
    /\ tcp_cb.kind = "connectionAborted"
    /\ ~Referenced(tcp_cb.pcb) /\ TimesListed(tcp_cb.pcb) = 0
    /\ \E p \in Pcbs : p # tcp_cb.pcb /\ Referenced(p) /\ pcbs[p].state = "SYN_SENT"

\* ---------------------------------------------------------------------------
\* TCP: properties of the PCB table
\* ---------------------------------------------------------------------------

Indexed == m_pcb_index_active \cup m_pcb_index_timewait
Remotes == {RemoteOf(c) : c \in Cons}
EphemeralPorts == EphemeralPortFirst..EphemeralPortLast

\* Some PCB of the active or the time-wait index has the tuple of the remote
\* end and the local port.
Collides(remote, port) == \E p \in Indexed : pcbs[p].key = PcbKey(remote, port)

\* The i-th port that a round over the range tries, starting at the cursor.
PortTried(i) ==
    EphemeralPortFirst
        + ((m_next_ephemeral_port - EphemeralPortFirst + i - 1) % NumEphemeralPorts)

\* C18 (ephemeral port allocation): in every reachable state the cursor is in
\* [EphemeralPortFirst, EphemeralPortLast], no two indexed PCBs have the same
\* tuple, and for every remote end get_ephemeral_port returns the first port,
\* in round-robin order from the cursor, whose tuple no PCB of the active or
\* time-wait index has, leaving the cursor on the port after it; it returns 0
\* only when every port of the range collides, leaving the cursor in the range.
C18_EphemeralPort ==
    /\ m_next_ephemeral_port \in EphemeralPorts
    /\ \A p, q \in Indexed : pcbs[p].key = pcbs[q].key => p = q
    /\ \A r \in Remotes :
          LET scan == get_ephemeral_port(TcpNow, r)
              free == {i \in 1..NumEphemeralPorts : ~Collides(r, PortTried(i))}
          IN  /\ scan.next \in EphemeralPorts
              /\ IF free = {} THEN scan.port = 0
                 ELSE /\ scan.port \in EphemeralPorts
                      /\ ~Collides(r, scan.port)
                      /\ \E i \in free : /\ scan.port = PortTried(i)
                                         /\ \A j \in free : i <= j
                      /\ scan.next = NextPort(scan.port)

\* C18 witness: the cursor is on the last port of the range, which collides
\* for a remote end, and get_ephemeral_port wraps around to return the first
\* port of the range.
C18_Witness ==
    \E r \in Remotes :
        /\ m_next_ephemeral_port = EphemeralPortLast
        /\ Collides(r, EphemeralPortLast)
        /\ get_ephemeral_port(TcpNow, r).port = EphemeralPortFirst

\* What create_connection would do for the connection object c.
Connect(c) == create_connection(TcpNow, c, RemoteOf(c), SeqMod - 2, FALSE)
AllPortsCollide(r) == \A port \in EphemeralPorts : Collides(r, port)

\* C19 (active-open resource exhaustion): in every reachable state, for a
\* connection object without PCB, create_connection returns NO_PORT_AVAIL
\* when every ephemeral port collides for the tuple, and NO_PCB_AVAIL when a
\* port is free and the unreferenced list is empty; in both cases nothing of
\* the TCP state changes except the port cursor: no PCB changes or is aborted,
\* the indexes and the list are as before, no timer is armed and no segment
\* is sent. Otherwise it returns SUCCESS.
C19_ConnectFailsCleanly ==
    \A c \in Cons :
        cons[c].pcb = PcbNull =>
            LET T2 == Connect(c)
            IN  /\ AllPortsCollide(RemoteOf(c)) => T2.obs.ret = "NO_PORT_AVAIL"
                /\ (~AllPortsCollide(RemoteOf(c)) /\ m_unrefed_pcbs_list = <<>>)
                      => T2.obs.ret = "NO_PCB_AVAIL"
                /\ (~AllPortsCollide(RemoteOf(c)) /\ m_unrefed_pcbs_list # <<>>)
                      => T2.obs.ret = "SUCCESS"
                /\ T2.obs.ret \in {"NO_PORT_AVAIL", "NO_PCB_AVAIL"} =>
                      /\ T2.obs.sent = <<>> /\ T2.obs.aborts = <<>>
                      /\ T2.obs.alloc = PcbNull
                      /\ [T2 EXCEPT !.port = m_next_ephemeral_port, !.obs = NoObs] = TcpNow

\* C19 witness: create_connection returns NO_PORT_AVAIL while the
\* unreferenced list ends with a PCB that is still open, which is left alone.
C19_Witness ==
    \E c \in Cons :
        /\ cons[c].pcb = PcbNull
        /\ Connect(c).obs.ret = "NO_PORT_AVAIL"
        /\ m_unrefed_pcbs_list # <<>>
        /\ pcbs[AllocatedPcb(TcpNow)].state # "CLOSED"

\* C19, second witness state: create_connection returns NO_PCB_AVAIL.
C19_NoPcbReached ==
    \E c \in Cons : cons[c].pcb = PcbNull /\ Connect(c).obs.ret = "NO_PCB_AVAIL"

\* The PCB p is as pcb_abort leaves it.
Aborted(T, p) ==
    /\ ~T.fault
    /\ T.pcbs[p].state = "CLOSED"
    /\ T.pcbs[p].con = ConNull /\ ~T.pcbs[p].lis
    /\ \A c \in Cons : T.cons[c].pcb # p
    /\ T.lis.m_accept_pcb # p
    /\ T.pcbs[p].tim = {}
    /\ p \notin T.active /\ p \notin T.timewait
    /\ T.unref # <<>> /\ T.unref[Len(T.unref)] = p
    /\ Cardinality({i \in 1..Len(T.unref) : T.unref[i] = p}) = 1

\* The PCB p is between the two halves of pcb_unlink_con.
InUnlinkCon(p) == tcp_cb.kind = "connectionAborted" /\ tcp_cb.pcb = p

C16_CallbackReached ==
    \E p \in Pcbs :
        /\ InUnlinkCon(p) /\ tcp_cb.after = "pcb_abort"
        /\ pcbs[p].tim # {}
        /\ Aborted(aborted_return(TcpNow, p, PlainOut), p)

\* The RSTs that the handler sent for the PCB p.
RstsFor(T, p) ==
    {i \in 1..Len(T.obs.sent) : T.obs.sent[i].kind = "RST" /\ T.obs.sent[i].pcb = p}
SilentStates == {"SYN_SENT", "SYN_RCVD", "TIME_WAIT"}

\* C17 (RST on abort): in every reachable state, the default pcb_abort of a
\* PCB that is not CLOSED sends one RST, with the PCB's snd_nxt as sequence
\* number, when the PCB is not in SYN_SENT, SYN_RCVD or TIME_WAIT, and sends
\* nothing when it is; nothing more is sent when the connectionAborted
\* callback returns into pcb_abort; allocate_pcb aborts by the default rule;
\* and unlink_listener aborts every SYN_RCVD PCB of the listener, and no
\* other PCB, without sending any RST.
C17_RstOnAbort ==
    /\ \A p \in Pcbs :
          (pcbs[p].state # "CLOSED" /\ ~InUnlinkCon(p)) =>
              LET T2 == pcb_abort(TcpNow, p)
              IN  /\ T2.obs.aborts =
                        <<[pcb |-> p, state |-> pcbs[p].state,
                           send_rst |-> pcbs[p].state \notin SilentStates]>>
                  /\ T2.obs.sent =
                        IF pcbs[p].state \in SilentStates THEN <<>>
                        ELSE <<[kind |-> "RST", pcb |-> p,
                                seq |-> pcbs[p].snd_nxt, len |-> 0]>>
    /\ \A p \in Pcbs :
          (InUnlinkCon(p) /\ tcp_cb.after = "pcb_abort") =>
              aborted_return(TcpNow, p, PlainOut).obs.sent = <<>>
    /\ \A c \in Cons :
          cons[c].pcb = PcbNull =>
              LET T2 == Connect(c)
              IN  /\ \A i \in 1..Len(T2.obs.aborts) :
                         /\ T2.obs.aborts[i].pcb = T2.obs.alloc
                         /\ T2.obs.aborts[i].send_rst
                               = (T2.obs.aborts[i].state \notin SilentStates)
                  /\ \A q \in Pcbs :
                         Cardinality(RstsFor(T2, q)) =
                             Cardinality({i \in 1..Len(T2.obs.aborts) :
                                             /\ T2.obs.aborts[i].pcb = q
                                             /\ T2.obs.aborts[i].send_rst})
    /\ LET T2 == unlink_listener(TcpNow)
       IN  /\ T2.obs.sent = <<>>
           /\ {T2.obs.aborts[i].pcb : i \in 1..Len(T2.obs.aborts)}
                 = {p \in Pcbs : pcbs[p].state = "SYN_RCVD" /\ pcbs[p].lis}
           /\ \A p \in Pcbs :
                 pcbs[p].state = "SYN_RCVD" /\ pcbs[p].lis => Aborted(T2, p)

\* C17 witness: allocate_pcb, called by create_connection, aborts an
\* abandoned PCB that is still sending its FIN, and one RST goes out.
C17_Witness ==
    \E c \in Cons :
        /\ cons[c].pcb = PcbNull
        /\ Len(Connect(c).obs.aborts) = 1
        /\ Connect(c).obs.aborts[1].state = "FIN_WAIT_1"
        /\ Cardinality(RstsFor(Connect(c), Connect(c).obs.alloc)) = 1

\* C17, second witness state: the listener is reset while a PCB in SYN_RCVD
\* belongs to it; the PCB is aborted and no RST is sent.
C17_ListenerRemoved ==
    /\ m_listener.m_listening
    /\ unlink_listener(TcpNow).obs.aborts # <<>>
    /\ unlink_listener(TcpNow).obs.sent = <<>>

\* C17, third witness state: a PCB in TIME_WAIT is aborted by allocate_pcb
\* and no RST is sent.
C17_SilentAbort ==
    \E c \in Cons :
        /\ cons[c].pcb = PcbNull
        /\ Len(Connect(c).obs.aborts) = 1
        /\ Connect(c).obs.aborts[1].state = "TIME_WAIT"
        /\ Connect(c).obs.sent = <<>>

\* The PCB that has been unreferenced the longest without being refreshed
\* (a PCB that pcb_abort has closed counts as the oldest).
OldestUnreferenced == unref_age[Len(unref_age)]

\* C20 (PCB reuse policy): in every reachable state with a non-empty
\* unreferenced list, the PCB that allocate_pcb selects is the one that has
\* been unreferenced the longest without being refreshed.
C20_SelectsOldest ==
    m_unrefed_pcbs_list # <<>> =>
        allocate_pcb(TcpNow).obs.alloc = OldestUnreferenced

\* C20, the rest of the claim: the PCB that allocate_pcb returns is CLOSED,
\* having been aborted if and only if it was open; it was owned by no
\* Connection, was not on offer to the listener and was not being unlinked.
C20_ReturnsClosedUnowned ==
    m_unrefed_pcbs_list # <<>> =>
        LET T2 == allocate_pcb(TcpNow)
            p == T2.obs.alloc
        IN  /\ ~T2.fault
            /\ p \in Pcbs
            /\ T2.pcbs[p].state = "CLOSED"
            /\ (T2.obs.aborts # <<>>) = (pcbs[p].state # "CLOSED")
            /\ \A i \in 1..Len(T2.obs.aborts) : T2.obs.aborts[i].pcb = p
            /\ \A c \in Cons : cons[c].pcb # p
            /\ pcbs[p].con = ConNull
            /\ m_listener.m_accept_pcb # p
            /\ ~InUnlinkCon(p)

\* C20: a reachable state in which allocate_pcb aborts the PCB that was
\* abandoned last, although a CLOSED PCB has been on the list for longer.
C20_AbortsNewestAbandoned ==
    /\ Len(m_unrefed_pcbs_list) = NumTcpPcbs
    /\ pcbs[OldestUnreferenced].state = "CLOSED"
    /\ allocate_pcb(TcpNow).obs.alloc # OldestUnreferenced
    /\ allocate_pcb(TcpNow).obs.aborts # <<>>

\* The handler made the connectionAborted upcall for the PCB p, which the
\* Connection c owned, and has broken the link between the two.
UpcallMade(T, p, c) ==
    /\ T.cb.kind = "connectionAborted" /\ T.cb.pcb = p
    /\ T.pcbs[p].con = ConNull
    /\ \A d \in Cons : T.cons[d].pcb # p
    /\ T.cons[c].pcb = PcbNull

\* What a terminal error does to the PCB p and its Connection, if it has one.
TerminalError(T2, p) ==
    IF pcbs[p].con # ConNull THEN UpcallMade(T2, p, pcbs[p].con)
    ELSE T2.cb.kind = "none"

C15_Handlers ==
    /\ \A p \in Pcbs :
          (tcp_cb.kind = "none" /\ pcbs[p].state # "CLOSED") =>
              /\ TerminalError(pcb_abort_rst([TcpNow EXCEPT !.cur = p], p, FALSE), p)
              /\ "AbrtTimer" \in pcbs[p].tim =>
                    TerminalError(
                        pcb_abrt_timer_handler(Expire(TcpNow, p, "AbrtTimer"), p), p)
    /\ \A c \in Cons :
          cons[c].pcb = PcbNull =>
              /\ [Connect(c).cb EXCEPT !.aborted = tcp_cb.aborted] = tcp_cb
              /\ \A i \in 1..Len(Connect(c).obs.aborts) :
                    pcbs[Connect(c).obs.aborts[i].pcb].con = ConNull
    /\ \A p \in Pcbs :
          InUnlinkCon(p) => pcbs[p].con = ConNull /\ \A c \in Cons : cons[c].pcb # p

C15_Steps ==
    /\ (tcp_cb' # tcp_cb /\ tcp_cb'.kind = "connectionAborted") =>
          /\ tcp_cb.kind = "none"
          /\ pcbs[tcp_cb'.pcb].con # ConNull
          /\ cons[pcbs[tcp_cb'.pcb].con].pcb = tcp_cb'.pcb
    /\ \A p \in Pcbs :
          (pcbs[p].con = ConNull /\ pcbs[p].state \notin {"CLOSED", "SYN_RCVD"}) =>
              \/ pcbs'[p].con = ConNull
              \/ pcbs'[p].state = "SYN_SENT" /\ pcbs[p].state # "SYN_SENT"

\* C15 (one connectionAborted upcall): a terminal error (RST received, or
\* AbrtTimer expired) on a PCB that a Connection owns makes the
\* connectionAborted upcall to that Connection and breaks the link between
\* the two first; on a PCB without Connection it makes no upcall; allocate_pcb
\* only aborts PCBs that no Connection owns and makes no upcall. An upcall
\* only starts for a PCB whose Connection still holds it, never while another
\* callback runs, and a PCB that has lost its Connection gets none again
\* before it is CLOSED and allocated anew: so each Connection gets exactly one
\* upcall for its PCB and no callback after it.
C15_OneAbortUpcall == []C15_Handlers /\ [][C15_Steps]_vars

\* C15 witness: an RST has arrived for an ESTABLISHED PCB with a Connection,
\* and the connectionAborted upcall is running inside pcb_abort.
C15_Witness ==
    \E p \in Pcbs :
        /\ InUnlinkCon(p) /\ tcp_cb.after = "pcb_abort"
        /\ pcbs[p].state = "ESTABLISHED"
        /\ m_current_pcb = p

\* ---------------------------------------------------------------------------
\* TCP: properties of output
\* ---------------------------------------------------------------------------

\* pcb_output may be called for the PCB p.
CanOutput(p) ==
    /\ tcp_cb.kind = "none"
    /\ can_output_in_state(pcbs[p].state)
    /\ pcb_has_snd_outstanding(TcpNow, p)

\* Sequence counts sent and not acknowledged, and queued in all (data and FIN).
InFlight(p) == seq_diff(pcbs[p].snd_nxt, pcbs[p].snd_una)
QueuedSeqLen(p) ==
    (IF pcbs[p].con # ConNull THEN cons[pcbs[p].con].snd_buf ELSE 0)
        + (IF snd_open_in_state(pcbs[p].state) THEN 0 ELSE 1)

\* The sequence length of the one segment that pcb_output sends for a
\* retransmission or window probe.
RtxSeqLen(p) ==
    IF pcbs[p].con = ConNull THEN 1
    ELSE SegSeqLen(cons[pcbs[p].con].snd_buf, ~snd_open_in_state(pcbs[p].state),
                   MaxValue(1, cons[pcbs[p].con].snd_wnd))

C13_ProbeOfUnsentData ==
    \E p \in Pcbs :
        /\ CanOutput(p) /\ pcbs[p].con # ConNull
        /\ cons[pcbs[p].con].snd_wnd = 0 /\ InFlight(p) = 0
        /\ "RtxTimer" \in pcbs[p].tim
        /\ pcb_output(TcpNow, p, TRUE, PlainOut).pcbs[p].snd_nxt
              = seq_add(pcbs[p].snd_una, 1)

\* The peer's window is zero and the PCB p, which has a Connection, has
\* data or a FIN outstanding, at an event boundary.
ZeroWindowPending(p) ==
    /\ tcp_cb.kind = "none"
    /\ pcbs[p].con # ConNull
    /\ can_output_in_state(pcbs[p].state)
    /\ pcb_has_snd_outstanding(TcpNow, p)
    /\ cons[pcbs[p].con].snd_wnd = 0

\* The RtxTimer runs as retransmission or probe timer, not as idle timer.
ProbeTimerArmed(p) == "RtxTimer" \in pcbs[p].tim /\ "IDLE_TIMER" \notin pcbs[p].flags

\* The RtxTimer of the PCB p expires with pcb->rto = rto.
RtxExpiry(p, o, rto) ==
    pcb_rtx_timer_handler(Expire(TcpNow, p, "RtxTimer"), p, [o EXCEPT !.rto = rto])

\* The expiry sent one probe from the head of the send buffer, unless the
\* send failed, and restarted the timer with the doubled timeout.
ProbedAndRearmed(T2, p, o, rto) ==
    /\ ~T2.fault
    /\ "RtxTimer" \in T2.pcbs[p].tim
    /\ T2.obs.rto <= MaxRtxTime
    /\ T2.obs.rto = 2 * rto \/ T2.obs.rto = MaxRtxTime
    /\ RtxSeqLen(p) >= 1
    /\ T2.obs.sent =
          IF o.fail_at = 1 THEN <<>>
          ELSE <<[kind |-> "SEG", pcb |-> p, seq |-> pcbs[p].snd_una,
                  len |-> RtxSeqLen(p)]>>
    /\ T2.cons = cons

\* C14 as stated (zero-window probing): in every reachable state at an event
\* boundary, a PCB with a Connection whose peer window is zero and that has
\* data or a FIN outstanding has its RtxTimer set, and the expiry of the
\* timer sends exactly one probe and sets the timer again.
C14_RtxTimerAlwaysArmed ==
    \A p \in Pcbs :
        ZeroWindowPending(p) =>
            /\ "RtxTimer" \in pcbs[p].tim
            /\ Len(RtxExpiry(p, PlainOut, InitialRtxTime).obs.sent) = 1
            /\ "RtxTimer" \in RtxExpiry(p, PlainOut, InitialRtxTime).pcbs[p].tim

\* C14 as amended: in every reachable state at an event boundary, a PCB with
\* a Connection whose peer window is zero and that has data or a FIN
\* outstanding has its RtxTimer running as probe timer or its OutputTimer
\* set. When the RtxTimer runs as probe timer, its expiry hands one probe of
\* sequence length >= 1, starting at snd_una, to the IP layer (none if the
\* send fails), changes nothing of the send buffer or the window, and
\* restarts the timer with min(2 * rto, MaxRtxTime). When the RtxTimer still
\* runs as idle timer, its expiry sends nothing and does not restart it, and
\* the OutputTimer is set.
C14_ProbingContinues ==
    \A p \in Pcbs :
        ZeroWindowPending(p) =>
            /\ ProbeTimerArmed(p) \/ "OutputTimer" \in pcbs[p].tim
            /\ ProbeTimerArmed(p) =>
                  \A o \in OutParams, rto \in Rtos :
                      ProbedAndRearmed(RtxExpiry(p, o, rto), p, o, rto)
            /\ ("RtxTimer" \in pcbs[p].tim /\ "IDLE_TIMER" \in pcbs[p].flags) =>
                  /\ "OutputTimer" \in pcbs[p].tim
                  /\ RtxExpiry(p, PlainOut, InitialRtxTime).obs.sent = <<>>
                  /\ "RtxTimer" \notin RtxExpiry(p, PlainOut, InitialRtxTime).pcbs[p].tim

\* C14 witness: the window is zero, data is queued, a first probe has been
\* sent (one sequence count is in flight) and the RtxTimer runs again.
C14_Witness ==
    \E p \in Pcbs :
        /\ ZeroWindowPending(p) /\ ProbeTimerArmed(p)
        /\ InFlight(p) = 1 /\ cons[pcbs[p].con].snd_buf = MaxSndBuf
        /\ ProbedAndRearmed(RtxExpiry(p, PlainOut, MaxRtxTime), p, PlainOut, MaxRtxTime)

\* C14, second witness state: data was queued while the window is zero and
\* the RtxTimer is not set; only the OutputTimer is.
C14_OnlyOutputTimer ==
    \E p \in Pcbs :
        ZeroWindowPending(p) /\ "RtxTimer" \notin pcbs[p].tim

\* C14, third witness state: the RtxTimer still runs as idle timer.
C14_IdleTimerRuns ==
    \E p \in Pcbs :
        ZeroWindowPending(p) /\ "RtxTimer" \in pcbs[p].tim /\ "IDLE_TIMER" \in pcbs[p].flags


\* ---------------------------------------------------------------------------
\* C12: rcv_nxt over a PCB's lifetime.

\* A step within one lifetime of PCB p: the PCB is in use before and after the
\* step and has not been given to another connection in between.
SameLifetime(p) ==
    /\ pcbs[p].state # "CLOSED"
    /\ pcbs'[p].state # "CLOSED"
    /\ pcbs'[p].state \in {"SYN_SENT", "SYN_RCVD"} => pcbs'[p].state = pcbs[p].state
    /\ pcbs'[p].key = pcbs[p].key

RcvNxtNotBackwards(p) == ~seq_lt2(pcbs'[p].rcv_nxt, pcbs[p].rcv_nxt)

\* C12 as stated: no step in the lifetime of a PCB moves rcv_nxt backwards in
\* the modulo comparison. (Violated: create_connection sets rcv_nxt to 0 and
\* the SYN-ACK sets it to irs + 1, which is behind 0 for half of the values
\* of irs.)
C12_RcvNxtNeverDecreases ==
    [][\A p \in Pcbs : SameLifetime(p) => RcvNxtNotBackwards(p)]_vars

\* C12 amended: once the peer's SYN has been processed (the PCB has left
\* SYN_SENT, or was created in SYN_RCVD), no step in the lifetime of the PCB
\* moves rcv_nxt backwards in the modulo comparison.
C12_RcvNxtMonotoneAfterSyn ==
    [][\A p \in Pcbs :
          (SameLifetime(p) /\ pcbs[p].state # "SYN_SENT") => RcvNxtNotBackwards(p)]_vars

\* A synchronized PCB whose rcv_nxt is about to wrap around: received data
\* moves it to a smaller integer that is ahead in the modulo comparison.
C12_Witness ==
    \E p \in Pcbs :
        /\ tcp_cb.kind = "none"
        /\ pcbs[p].state = "ESTABLISHED"
        /\ pcbs[p].rcv_nxt = SeqMod - 1
        /\ data_input(TcpNow, p, MaxRcvLen, PlainOut).pcbs[p].rcv_nxt = MaxRcvLen - 1
        /\ ~seq_lt2(MaxRcvLen - 1, pcbs[p].rcv_nxt)

\* The peer's FIN has been received on an actively opened connection:
\* rcv_nxt has advanced over the peer's SYN and FIN, away from its initial 0.
C12_FinReceived ==
    \E p \in Pcbs :
        /\ pcbs[p].state = "CLOSE_WAIT"
        /\ pcbs[p].con = 1
        /\ pcbs[p].key # PassiveKey(1)
        /\ pcbs[p].rcv_nxt = 3


\* ---------------------------------------------------------------------------
\* C11: cwnd is at least one segment.

\* C11 (T5): whenever the PCB is in a state where it can send data, has a
\* TcpConnection and CWND_INIT is clear, cwnd >= snd_mss.
C11_CwndAtLeastMss ==
    (cc.state = "ESTABLISHED" /\ cc.con /\ "CWND_INIT" \notin cc.flags) =>
        cc.cwnd >= cc.snd_mss

\* No assertion of the congestion-control code fails (among them
\* cwnd >= snd_mss in pcb_output_active and in the partial-ACK branch, and
\* ssthresh >= snd_mss at the end of fast recovery).
C11_NoAssertionFails == ~cc.fault


\* A retransmission timeout has left cwnd at one segment, and a PMTU change
\* then raises snd_mss: cwnd is raised with it.
C11_Witness ==
    /\ cc.state = "ESTABLISHED" /\ cc.con /\ ~cc.fault
    /\ "CWND_INIT" \notin cc.flags
    /\ cc.cwnd = cc.snd_mss
    /\ \E pmtu \in Pmtus :
          /\ pcb_pmtu_changed(cc, pmtu).snd_mss > cc.cwnd
          /\ pcb_pmtu_changed(cc, pmtu).cwnd = pcb_pmtu_changed(cc, pmtu).snd_mss

\* After a retransmission timeout: cwnd is one segment.
C11_AfterRto ==
    /\ cc.state = "ESTABLISHED" /\ cc.con
    /\ "RTX_ACTIVE" \in cc.flags /\ "CWND_INIT" \notin cc.flags
    /\ CcFlight(cc) > 0
    /\ cc.cwnd = cc.snd_mss

\* A partial ACK in fast recovery acks more than cwnd - snd_mss: the
\* deflation stops at snd_mss.
C11_PartialAck ==
    /\ cc.state = "ESTABLISHED" /\ cc.con /\ ~cc.fault
    /\ cc.num_dupack >= FastRtxDupAcks /\ "RECOVER" \in cc.flags
    /\ \E acked \in 1..CcFlight(cc) :
          /\ seq_lt2(seq_add(cc.snd_una, acked), cc.recover)
          /\ acked < cc.snd_mss
          /\ cc.cwnd - acked < cc.snd_mss
          /\ cc_ack_input(cc, acked, FALSE, FALSE).cwnd = cc.snd_mss

\* The ACK that ends fast recovery deflates cwnd to less than it was.
C11_Deflation ==
    /\ cc.state = "ESTABLISHED" /\ cc.con /\ ~cc.fault
    /\ cc.num_dupack >= FastRtxDupAcks /\ "RECOVER" \in cc.flags
    /\ \E acked \in 1..CcFlight(cc) :
          /\ ~seq_lt2(seq_add(cc.snd_una, acked), cc.recover)
          /\ cc_ack_input(cc, acked, FALSE, FALSE).cwnd < cc.cwnd
          /\ cc_ack_input(cc, acked, FALSE, FALSE).num_dupack = 0


\* ---------------------------------------------------------------------------
\* C21: abandonment
\* ---------------------------------------------------------------------------

\* A PCB that its TcpConnection has abandoned and that is still open.
Abandoned(p) ==
    /\ pcbs[p].con = ConNull /\ ~pcbs[p].lis
    /\ state_is_active(pcbs[p].state)
    /\ ~BeingUnlinked(p)

\* The FIN of the PCB p is queued and a call of pcb_output is due: from the
\* OutputTimer, or at the end of the input processing of p.
FinScheduled(T, p) ==
    /\ "FIN_PENDING" \in T.pcbs[p].flags
    /\ \/ "OutputTimer" \in T.pcbs[p].tim
       \/ T.cur = p /\ "OUT_PENDING" \in T.pcbs[p].flags

FinDue(p) == Abandoned(p) /\ FinScheduled(TcpNow, p)
FinGone(p) == "FIN_SENT" \in pcbs[p].flags \/ pcbs[p].state \in {"CLOSED", "TIME_WAIT"}

\* The OutputTimer of an abandoned PCB with its FIN queued expires: the FIN is
\* sent and the RtxTimer set, or the transmission fails and the OutputTimer
\* is set again.
FinOutput(p, o) ==
    LET T2 == pcb_output(Expire(TcpNow, p, "OutputTimer"), p, FALSE, o)
    IN  /\ ~T2.fault /\ T2.pcbs[p].state = pcbs[p].state
        /\ IF o.fail_at = 1
           THEN /\ "OutputTimer" \in T2.pcbs[p].tim
                /\ "FIN_PENDING" \in T2.pcbs[p].flags
                /\ T2.pcbs[p].snd_nxt = pcbs[p].snd_nxt
           ELSE /\ "FIN_SENT" \in T2.pcbs[p].flags
                /\ "FIN_PENDING" \notin T2.pcbs[p].flags
                /\ "RtxTimer" \in T2.pcbs[p].tim
                /\ seq_diff(T2.pcbs[p].snd_nxt, T2.pcbs[p].snd_una) = 1

\* TcpConnection::reset of the connection c, whose PCB p can send, with the
\* send buffer as it is: the PCB is aborted with an RST if data is queued or
\* received data was not processed, and else is left to send its FIN, with the
\* AbrtTimer set to AbandonedTimeoutTicks.
ResetDrains(c, p, have_unprocessed_data) ==
    LET T2 == con_reset(TcpNow, c, cons[c].snd_buf > 0 \/ have_unprocessed_data)
    IN  IF cons[c].snd_buf > 0 \/ have_unprocessed_data
        THEN Aborted(T2, p) /\ Cardinality(RstsFor(T2, p)) = 1
        ELSE /\ ~T2.fault
             /\ T2.pcbs[p].state =
                    (IF pcbs[p].state = "ESTABLISHED" THEN "FIN_WAIT_1" ELSE "LAST_ACK")
             /\ T2.obs.aborts = <<>> /\ T2.obs.sent = <<>>
             /\ FinScheduled(T2, p)
             /\ "AbrtTimer" \in T2.pcbs[p].tim
             /\ T2.abrt[p] = AbandonedTimeoutTicks

C21_Safety ==
    /\ \A c \in Cons, u \in BOOLEAN :
          (/\ cons[c].pcb # PcbNull /\ ~tcp_fault
           /\ snd_open_in_state(pcbs[cons[c].pcb].state))
          => ResetDrains(c, cons[c].pcb, u)
    /\ \A p \in Pcbs :
          Abandoned(p) =>
             /\ "AbrtTimer" \in pcbs[p].tim
             /\ abrt_after[p] = AbandonedTimeoutTicks
             /\ tcp_cb.kind = "none" =>
                    Aborted(pcb_abrt_timer_handler(Expire(TcpNow, p, "AbrtTimer"), p), p)
             /\ (tcp_cb.kind = "none" /\ "FIN_PENDING" \in pcbs[p].flags
                    /\ "OutputTimer" \in pcbs[p].tim) =>
                   \A o \in OutParams : FinOutput(p, o)

C21_ResetWithData ==
    \E c \in Cons :
        /\ cons[c].pcb # PcbNull /\ cons[c].snd_buf > 0
        /\ pcbs[cons[c].pcb].state = "ESTABLISHED"


\* ---------------------------------------------------------------------------
\* C22: fast retransmit
\* ---------------------------------------------------------------------------

\* Segments are in flight on a PCB that can send.
CcInFlight == (cc.state \in {"ESTABLISHED", "FIN_WAIT_1"}) /\ ~cc.fault /\ CcFlight(cc) > 0
InFastRecovery == cc.num_dupack >= FastRtxDupAcks
QueuedChoices == 0..(base_snd_mss - 1)

\* The third duplicate ACK with RECOVER clear: the segment at snd_una is sent
\* once; with a TcpConnection, recover is snd_nxt as the retransmission left
\* it, RECOVER is set and fast recovery has begun.
ThirdDupAck(queued) ==
    LET c2 == cc_dup_ack_input(cc, queued)
    IN  /\ c2.rtx = <<cc.snd_una>>
        /\ c2.num_dupack = FastRtxDupAcks
        /\ c2.snd_una = cc.snd_una
        /\ c2.snd_nxt = seq_add(cc.snd_nxt, IF cc.con THEN RtxNewData(cc, queued) ELSE 0)
        /\ cc.con => (c2.recover = c2.snd_nxt /\ "RECOVER" \in c2.flags)

\* A cumulative ACK of acked bytes in fast recovery: it ends fast recovery if
\* it reaches recover, and if it does not it leaves the PCB in fast recovery.
RecoveryAck(acked, rtt_ends, idle) ==
    LET c2 == cc_ack_input(cc, acked, rtt_ends, idle)
    IN  IF ~cc.con \/ ~seq_lt2(seq_add(cc.snd_una, acked), cc.recover)
        THEN c2.num_dupack = 0
        ELSE c2.num_dupack = cc.num_dupack /\ c2.recover = cc.recover

\* C22 (fast retransmit): in every reachable state with segments in flight,
\* (1) the third duplicate ACK, with RECOVER clear, retransmits the segment
\* at snd_una once and, on a PCB that has its TcpConnection (recover is a
\* variable of the TcpConnection), sets recover to snd_nxt as it is after
\* that retransmission; (2) a duplicate ACK in fast recovery, and a third
\* duplicate ACK with RECOVER set, retransmit nothing; (3) in fast recovery
\* RECOVER is set and recover is not beyond snd_nxt, a cumulative ACK whose
\* number is not before recover sets num_dupack to 0, and one whose number is
\* before recover leaves num_dupack and recover as they are.
C22_FastRetransmit ==
    CcInFlight =>
        /\ (cc.num_dupack + 1 = FastRtxDupAcks /\ "RECOVER" \notin cc.flags) =>
              \A queued \in QueuedChoices :
                  (queued = 0 \/ cc.con) => ThirdDupAck(queued)
        /\ (InFastRecovery \/ "RECOVER" \in cc.flags) =>
              \A queued \in QueuedChoices : cc_dup_ack_input(cc, queued).rtx = <<>>
        /\ InFastRecovery =>
              /\ cc.con => /\ "RECOVER" \in cc.flags
                           /\ seq_diff(cc.recover, cc.snd_una) <= CcFlight(cc)
              /\ \A acked \in 1..CcFlight(cc), rtt_ends \in BOOLEAN, idle \in BOOLEAN :
                    RecoveryAck(acked, rtt_ends, idle)

\* C22 witness: fast recovery was entered by a retransmission that took
\* unsent data with it, new data was sent after it, and duplicate ACKs
\* went on: an ACK of less than recover is partial, one up to recover ends it.
C22_Witness ==
    /\ CcInFlight /\ cc.con
    /\ cc.num_dupack > FastRtxDupAcks /\ "RECOVER" \in cc.flags
    /\ seq_lt2(cc.recover, cc.snd_nxt)
    /\ seq_diff(cc.recover, cc.snd_una) >= 2
    /\ \E acked \in 1..CcFlight(cc) :
          /\ seq_add(cc.snd_una, acked) = cc.recover
          /\ cc_ack_input(cc, acked, FALSE, FALSE).num_dupack = 0
          /\ cc_ack_input(cc, acked - 1, FALSE, FALSE).num_dupack = cc.num_dupack

\* The third duplicate ACK finds less than a segment in flight and unsent
\* data queued: the retransmitted segment moves snd_nxt, and recover with it.
C22_RetransmissionMovesSndNxt ==
    /\ CcInFlight /\ cc.con
    /\ cc.num_dupack + 1 = FastRtxDupAcks /\ "RECOVER" \notin cc.flags
    /\ \E queued \in QueuedChoices :
          /\ RtxNewData(cc, queued) > 0
          /\ cc_dup_ack_input(cc, queued).recover = seq_add(cc.snd_nxt, queued)

\* The FIN of an abandoned PCB is in flight and two duplicate ACKs have come.
C22_FinRetransmitted ==
    /\ CcInFlight /\ ~cc.con
    /\ cc.num_dupack + 1 = FastRtxDupAcks /\ "RECOVER" \notin cc.flags

\* ---------------------------------------------------------------------------
\* A transmission that fails in pcb_output_active (normal mode)
\* ---------------------------------------------------------------------------

\* The outputs whose fail_at-th transmission fails, with every error, window,
\* push and state of the round-trip-time measurement.
SendErrParams ==
    [fail_at : 1..2, cwnd : Cwnds, pushed : BOOLEAN, rto : {InitialRtxTime},
     err : IpErrs, rtt_pending : BOOLEAN, rtt_off : 0..1]

\* The condition of the loop of pcb_output_active.
LoopGoes(w, data_threshold) ==
    (w.cur > data_threshold \/ w.fin) /\ w.rem_wnd > 0

\* The loop state after n segments were sent.
RECURSIVE SentN(_, _, _)
SentN(w, snd_buf_len, n) ==
    IF n = 0 THEN w ELSE SentN(OutputSent(w, snd_buf_len), snd_buf_len, n - 1)

\* The loop state at the attempt that fails, and whether the loop gets there.
BeforeAttempt(p, o) ==
    SentN(OutputStart(TcpNow, p, o), cons[pcbs[p].con].snd_buf, o.fail_at - 1)

AttemptMade(p, o) ==
    \A n \in 0..(o.fail_at - 1) :
        LoopGoes(SentN(OutputStart(TcpNow, p, o), cons[pcbs[p].con].snd_buf, n),
                 DataThreshold(TcpNow, p, o))

RetryAfter(err) ==
    IF err = "BUFFER_FULL" THEN OutputRetryFullTicks ELSE OutputRetryOtherTicks

\* The failing attempt left what the attempts before it had made, sent
\* nothing more, and armed the OutputTimer for the retry.
SendFailed(p, o) ==
    LET T2 == pcb_output_active(TcpNow, p, FALSE, o)
        w == BeforeAttempt(p, o)
    IN  /\ ~T2.fault
        /\ T2.pcbs[p].snd_nxt = w.pcb.snd_nxt
        /\ T2.cons[pcbs[p].con].snd_buf_cur = w.cur
        /\ T2.pcbs[p].flags \cap {"FIN_PENDING", "FIN_SENT"}
             = w.pcb.flags \cap {"FIN_PENDING", "FIN_SENT"}
        /\ T2.obs.rtt = w.rtt
        /\ o.fail_at = 1 =>
              /\ T2.pcbs[p].snd_nxt = pcbs[p].snd_nxt
              /\ T2.cons = cons
              /\ T2.pcbs[p].flags \ {"OUT_RETRY", "IDLE_TIMER"}
                   = pcbs[p].flags \ {"OUT_RETRY", "IDLE_TIMER"}
              /\ T2.obs.rtt.pending = o.rtt_pending
        /\ "OutputTimer" \in T2.pcbs[p].tim
        /\ "OUT_RETRY" \in T2.pcbs[p].flags
        /\ T2.pcbs[p].out_after = RetryAfter(o.err)

\* C23 (transient send error): in every reachable state, for every PCB with
\* a connection that can do output, when a transmission of the send loop of
\* normal-mode output fails, snd_nxt, snd_buf_cur, FIN_PENDING, FIN_SENT and
\* RTT_PENDING (with rtt_test_seq) are as they were before that attempt, no
\* further segment is sent, and the OutputTimer is armed with OUT_RETRY to
\* expire after OutputRetryFullTicks (100 ms) if the error is BUFFER_FULL and
\* after OutputRetryOtherTicks (2 s) for any other error.
C23_TransientSendError ==
    \A p \in Pcbs :
        (CanOutput(p) /\ pcbs[p].con # ConNull) =>
            \A o \in SendErrParams : AttemptMade(p, o) => SendFailed(p, o)

\* C23 witness: the second transmission of an OutputTimer expiry failed with
\* another error than BUFFER_FULL: the first segment is counted in snd_nxt and
\* passed over by snd_buf_cur, the rest is still to send, and the OutputTimer
\* is armed for the retry after OutputRetryOtherTicks.
C23_Witness ==
    \E p \in Pcbs :
        /\ pcbs[p].con # ConNull
        /\ "OUT_RETRY" \in pcbs[p].flags /\ "OutputTimer" \in pcbs[p].tim
        /\ pcbs[p].out_after = OutputRetryOtherTicks
        /\ pcbs[p].snd_nxt # pcbs[p].snd_una
        /\ cons[pcbs[p].con].snd_buf_cur > 0
        /\ cons[pcbs[p].con].snd_buf_cur < cons[pcbs[p].con].snd_buf

\* The first transmission failed with BUFFER_FULL: nothing was sent and the
\* retry is due after OutputRetryFullTicks.
C23_BufferFull ==
    \E p \in Pcbs :
        /\ pcbs[p].con # ConNull /\ pcbs[p].state = "ESTABLISHED"
        /\ "OUT_RETRY" \in pcbs[p].flags /\ "OutputTimer" \in pcbs[p].tim
        /\ pcbs[p].out_after = OutputRetryFullTicks
        /\ pcbs[p].snd_nxt = pcbs[p].snd_una

\* ---------------------------------------------------------------------------
\* TcpListenQueue: QueuedListener and ListenQueueEntry
\* ---------------------------------------------------------------------------

\* Platform::timeGreaterOrEqual: t1 is not before t2, for times less than
\* WorkingTimeSpanTicks apart.
timeGreaterOrEqual(t1, t2) == TimeSub(t1, t2) < WorkingTimeSpanTicks

LqFault(q) == [q EXCEPT !.fault = TRUE]

Without(s, e) == SelectSeq(s, LAMBDA x : x # e)

\* find_oldest: the loop over the entries from index i on.
RECURSIVE find_oldest_from(_, _, _, _)
find_oldest_from(q, ready, i, oldest_entry) ==
    IF i > QueueSize THEN oldest_entry
    ELSE find_oldest_from(q, ready, i + 1,
             IF /\ ~q.m_queue[i].init
                /\ q.m_queue[i].m_ready = ready
                /\ \/ oldest_entry = SlotNull
                   \/ ~timeGreaterOrEqual(q.m_queue[i].m_time,
                                          q.m_queue[oldest_entry].m_time)
             THEN i ELSE oldest_entry)

find_oldest(q, ready) == find_oldest_from(q, ready, 1, SlotNull)

\* (The timeout of the entry that was accepted last.)
update_timeout_Newest(q) ==
    IF ~q.listening THEN LqFault(q)
    ELSE IF \E e \in Slots : ~q.m_queue[e].init /\ ~q.m_queue[e].m_ready
    THEN [q EXCEPT !.TimeoutTimer =
             [set |-> TRUE,
              at |-> TimeAdd(q.m_queue[
                         q.order[CHOOSE i \in 1..Len(q.order) :
                                    /\ ~q.m_queue[q.order[i]].m_ready
                                    /\ \A j \in (i + 1)..Len(q.order) :
                                          q.m_queue[q.order[j]].m_ready]].m_time,
                         QueueTimeout)]]
    ELSE [q EXCEPT !.TimeoutTimer = NoTimeout]

update_timeout(q) ==
    IF ~q.listening THEN LqFault(q)
    ELSE IF find_oldest(q, FALSE) # SlotNull
    THEN [q EXCEPT !.TimeoutTimer =
             [set |-> TRUE,
              at |-> TimeAdd(q.m_queue[find_oldest(q, FALSE)].m_time, QueueTimeout)]]
    ELSE [q EXCEPT !.TimeoutTimer = NoTimeout]

\* TcpConnection::reset of an entry: the entry is in the init state again.
EntryReset(q, e) ==
    [q EXCEPT !.m_queue[e].init = TRUE, !.m_queue[e].rx_len = 0,
              !.order = Without(@, e), !.fresh = @ \ {e},
              !.ties = {t \in @ : e \notin t}, !.aged = @ \ {e}]

\* ListenQueueEntry::accept_connection at time t; ok: acceptConnection of the
\* TcpConnection succeeded.
accept_connection(q, e, ok, t) ==
    IF ~q.m_queue[e].init THEN LqFault(q)
    ELSE IF ~ok THEN q
    ELSE update_timeout([q EXCEPT !.m_queue[e] =
                                     [init |-> FALSE, m_ready |-> FALSE,
                                      m_time |-> t, rx_len |-> 0],
                                  !.order = Append(@, e),
                                  !.fresh = @ \cup {e},
                                  !.ties = @ \cup {{d, e} : d \in q.fresh}])

reset_connection(q, e) ==
    IF q.m_queue[e].init THEN LqFault(q)
    ELSE IF ~q.m_queue[e].m_ready THEN update_timeout(EntryReset(q, e))
    ELSE EntryReset(q, e)

\* QueuedListener::acceptConnection called by the user in
\* queuedListenerConnectionEstablished: the connection moves out of the entry.
acceptConnection(q) ==
    IF \/ ~q.listening
       \/ q.m_queued_to_accept = SlotNull
    THEN LqFault(q)
    ELSE IF \/ q.m_queue[q.m_queued_to_accept].init
            \/ ~q.m_queue[q.m_queued_to_accept].m_ready
    THEN LqFault(q)
    ELSE [EntryReset(q, q.m_queued_to_accept) EXCEPT !.m_queued_to_accept = SlotNull]

\* (Offering the ready entry of the lowest index.)
OfferEntry_FirstIndex(q) ==
    IF \E e \in Slots : ~q.m_queue[e].init /\ q.m_queue[e].m_ready
    THEN CHOOSE e \in Slots :
            /\ ~q.m_queue[e].init /\ q.m_queue[e].m_ready
            /\ \A d \in 1..(e - 1) : q.m_queue[d].init \/ ~q.m_queue[d].m_ready
    ELSE SlotNull

\* The entry that dispatch_connections offers next.
OfferEntry(q) == find_oldest(q, TRUE)

\* The loop of dispatch_connections; the user accepts the first accepts
\* connections it is offered and leaves the next.
RECURSIVE DispatchLoop(_, _)
DispatchLoop(q, accepts) ==
    IF OfferEntry(q) = SlotNull THEN q
    ELSE IF accepts = 0
    THEN [q EXCEPT !.offers = Append(@, OfferEntry(q))]
    ELSE DispatchLoop(
             [acceptConnection([q EXCEPT !.m_queued_to_accept = OfferEntry(q)])
                 EXCEPT !.m_queued_to_accept = SlotNull,
                        !.offers = Append(q.offers, OfferEntry(q))],
             accepts - 1)

dispatch_connections(q, accepts) ==
    IF ~q.listening \/ q.m_queued_to_accept # SlotNull THEN LqFault(q)
    ELSE DispatchLoop(q, accepts)

\* The TcpConnection callbacks of an entry.
connectionAborted(q, e) == reset_connection(q, e)

dataReceived(q, e, amount, accepts) ==
    IF q.m_queue[e].init THEN LqFault(q)
    ELSE IF amount = 0 /\ q.m_queue[e].rx_len = 0 THEN reset_connection(q, e)
    ELSE IF ~q.m_queue[e].m_ready
    THEN dispatch_connections(
             update_timeout([q EXCEPT !.m_queue[e].rx_len = @ + amount,
                                      !.m_queue[e].m_ready = TRUE]),
             accepts)
    ELSE [q EXCEPT !.m_queue[e].rx_len = @ + amount]

\* The TcpListener callback: the connection goes to the first entry in the
\* init state, if there is one.
connectionEstablished(q, ok, t) ==
    IF ~q.listening THEN LqFault(q)
    ELSE IF \A e \in Slots : ~q.m_queue[e].init THEN q
    ELSE accept_connection(q, CHOOSE e \in Slots :
                                  /\ q.m_queue[e].init
                                  /\ \A d \in 1..(e - 1) : ~q.m_queue[d].init,
                           ok, t)

\* The expiry of the TimeoutTimer.
timerExpired_TimeoutTimer(q) ==
    IF ~q.listening \/ find_oldest(q, FALSE) = SlotNull
    THEN LqFault([q EXCEPT !.TimeoutTimer = NoTimeout])
    ELSE reset_connection([q EXCEPT !.TimeoutTimer = NoTimeout],
                          find_oldest(q, FALSE))

\* The expiry of the DequeueTimer.
timerExpired_DequeueTimer(q, accepts) ==
    dispatch_connections([q EXCEPT !.DequeueTimer = FALSE], accepts)

scheduleDequeue(q) ==
    IF ~q.listening THEN LqFault(q) ELSE [q EXCEPT !.DequeueTimer = TRUE]

\* startListening (with a queue of QueueSize entries) and reset.
QueuedListener_startListening(q) ==
    IF q.listening THEN LqFault(q)
    ELSE [q EXCEPT !.listening = TRUE, !.m_queued_to_accept = SlotNull]

QueuedListener_reset(q) ==
    [q EXCEPT !.m_queue = [e \in Slots |->
                              IF q.listening
                              THEN [q.m_queue[e] EXCEPT !.init = TRUE, !.rx_len = 0]
                              ELSE q.m_queue[e]],
              !.order = IF q.listening THEN <<>> ELSE @,
              !.fresh = IF q.listening THEN {} ELSE @,
              !.ties = IF q.listening THEN {} ELSE @,
              !.aged = IF q.listening THEN {} ELSE @,
              !.TimeoutTimer = NoTimeout, !.DequeueTimer = FALSE,
              !.listening = FALSE]

\* The queue as a handler finds it, and a handler's step.
LqNow == [lq EXCEPT !.offers = <<>>]

LqStep(q) ==
    /\ lq' = q
    /\ UNCHANGED <<pcbs, cons, m_listener, m_unrefed_pcbs_list, m_pcb_index_active,
                   m_pcb_index_timewait, m_current_pcb, m_next_ephemeral_port,
                   tcp_cb, tcp_fault, unref_age, abrt_after, cc, snd, heap>>
    /\ UNCHANGED reass_vars

LqStartListening == ~lq.listening /\ LqStep(QueuedListener_startListening(LqNow))
LqReset == lq.listening /\ LqStep(QueuedListener_reset(LqNow))
LqScheduleDequeue == lq.listening /\ LqStep(scheduleDequeue(LqNow))
LqConnectionEstablished(ok) ==
    lq.listening /\ LqStep(connectionEstablished(LqNow, ok, now))
LqDataReceived(e, amount, accepts) ==
    /\ ~lq.m_queue[e].init
    /\ amount <= RxBufferSize - lq.m_queue[e].rx_len
    /\ LqStep(dataReceived(LqNow, e, amount, accepts))
LqConnectionAborted(e) ==
    ~lq.m_queue[e].init /\ LqStep(connectionAborted(LqNow, e))
LqTimeoutTimerExpired ==
    /\ lq.TimeoutTimer.set /\ lq.TimeoutTimer.at = now
    /\ LqStep(timerExpired_TimeoutTimer(LqNow))
LqDequeueTimerExpired(accepts) ==
    lq.DequeueTimer /\ LqStep(timerExpired_DequeueTimer(LqNow, accepts))
\* The clock advances by one tick; an expired timer is served first.
LqTick ==
    /\ ~(lq.TimeoutTimer.set /\ lq.TimeoutTimer.at = now)
    /\ ~lq.DequeueTimer
    /\ now # m_timer
    /\ now' = TimeAdd(now, 1)
    /\ lq' = [lq EXCEPT
                 !.fresh = {}, !.offers = <<>>,
                 !.aged = @ \cup {e \in Slots :
                                    /\ ~lq.m_queue[e].init
                                    /\ TimeSub(TimeAdd(now, 1), lq.m_queue[e].m_time)
                                          >= WorkingTimeSpanTicks}]
    /\ reass_life' = LifeElapsed
    /\ UNCHANGED <<m_timer, m_reass_packets, written, reass_last, only_dgram>>
    /\ UNCHANGED <<pcbs, cons, m_listener, m_unrefed_pcbs_list, m_pcb_index_active,
                   m_pcb_index_timewait, m_current_pcb, m_next_ephemeral_port,
                   tcp_cb, tcp_fault, unref_age, abrt_after, cc, snd, heap>>

\* Connections of one listener are established, receive data or a FIN, are
\* aborted, time out in the queue and are offered to a user who accepts some,
\* while the clock runs and wraps.
NextLq ==
    \/ LqStartListening
    \/ LqReset
    \/ LqScheduleDequeue
    \/ \E ok \in BOOLEAN : LqConnectionEstablished(ok)
    \/ \E e \in Slots, amount \in 0..RxBufferSize, accepts \in 0..QueueSize :
          LqDataReceived(e, amount, accepts)
    \/ \E e \in Slots : LqConnectionAborted(e)
    \/ LqTimeoutTimerExpired
    \/ \E accepts \in 0..QueueSize : LqDequeueTimerExpired(accepts)
    \/ timerHandler
    \/ LqTick

SpecLq == Init /\ [][NextLq]_vars

\* The occupied entries that are not ready, and those that are.
NonReady == {e \in Slots : ~lq.m_queue[e].init /\ ~lq.m_queue[e].m_ready}
Ready == {e \in Slots : ~lq.m_queue[e].init /\ lq.m_queue[e].m_ready}

\* Entry e was accepted before entry d.
Before(e, d) ==
    /\ {d, e} \notin lq.ties
    /\ \E i, j \in 1..Len(lq.order) : i < j /\ lq.order[i] = e /\ lq.order[j] = d

\* Entry e is the oldest of the entries S: none of them was accepted before it.
OldestOf(e, S) == e \in S /\ \A d \in S : ~Before(d, e)

\* The TimeoutTimer is set if and only if an occupied entry is not ready, to
\* the acceptance time of the oldest of them plus the queue timeout.
TimeoutTracksOldest ==
    /\ lq.TimeoutTimer.set <=> NonReady # {}
    /\ \A e \in Slots :
          OldestOf(e, NonReady) =>
              lq.TimeoutTimer.at = TimeAdd(lq.m_queue[e].m_time, QueueTimeout)

\* The expiry of the TimeoutTimer resets one entry, the oldest that is not
\* ready or one of them, and leaves every other entry as it is.
TimeoutResetsOldest ==
    LET q2 == timerExpired_TimeoutTimer(LqNow)
    IN  /\ ~q2.fault
        /\ \E e \in Slots :
              /\ OldestOf(e, NonReady)
              /\ q2.m_queue[e].init
              /\ \A d \in Slots \ {e} : q2.m_queue[d] = lq.m_queue[d]
              /\ q2.order = Without(lq.order, e)

\* C24 (listen-queue timeout): in every reachable state the TimeoutTimer is
\* set if and only if some occupied entry is not ready, its expiry time is
\* the acceptance time (m_time) of the entry that was accepted first among
\* the occupied entries that are not ready plus the queue timeout, and when
\* it expires exactly one entry is reset, the one accepted first among those
\* not ready (one of them if several were accepted at that same time): every
\* other entry, ready or not, stays as it is. No assertion of the queue
\* fails, and the order history holds exactly the occupied entries.
C24_ListenQueueTimeout ==
    /\ ~lq.fault
    /\ \A e \in Slots :
          ~lq.m_queue[e].init <=> (\E i \in 1..Len(lq.order) : lq.order[i] = e)
    /\ TimeoutTracksOldest
    /\ (lq.TimeoutTimer.set /\ lq.TimeoutTimer.at = now) => TimeoutResetsOldest

\* C24 witness: the TimeoutTimer is due with two entries that are not ready
\* in the queue, the older of them in the higher slot.
C24_Witness ==
    /\ lq.TimeoutTimer.set /\ lq.TimeoutTimer.at = now
    /\ NonReady = {1, 2} /\ Before(2, 1)
    /\ timerExpired_TimeoutTimer(LqNow).m_queue[2].init

\* The TimeoutTimer is due with a ready entry in the queue that is older than
\* the entry it is due for.
C24_ReadyUntouched ==
    /\ lq.TimeoutTimer.set /\ lq.TimeoutTimer.at = now
    /\ \E e \in Ready, d \in NonReady : Before(e, d)

\* What dispatch_connections offered when it ran in the current state with a
\* user who accepts the first accepts offers.
Offered(accepts) == dispatch_connections(LqNow, accepts).offers

OfferedBefore(accepts, i) == {Offered(accepts)[j] : j \in 1..(i - 1)}

\* Every offer is an occupied ready entry.
OffersReady(accepts) ==
    \A i \in 1..Len(Offered(accepts)) : Offered(accepts)[i] \in Ready

\* Every offer is the oldest of the ready entries not offered before it.
OffersOldestFirst(accepts) ==
    \A i \in 1..Len(Offered(accepts)) :
        OldestOf(Offered(accepts)[i], Ready \ OfferedBefore(accepts, i))

\* The offers go on until one is not accepted or no ready entry is left; the
\* accepted entries are in the init state after it and the others are as
\* they were.
OffersStop(accepts) ==
    /\ Len(Offered(accepts)) = MinValue(accepts + 1, Cardinality(Ready))
    /\ Len(Offered(accepts)) <= QueueSize
    /\ \A e \in Slots :
          dispatch_connections(LqNow, accepts).m_queue[e] =
              IF \E i \in 1..MinValue(accepts, Len(Offered(accepts))) :
                    Offered(accepts)[i] = e
              THEN [lq.m_queue[e] EXCEPT !.init = TRUE, !.rx_len = 0]
              ELSE lq.m_queue[e]

\* C25 (listen-queue dispatch): in every reachable state of a listening
\* queue, dispatch_connections offers only occupied ready entries, each the
\* oldest (by acceptance) of the ready entries still in the queue, stops at
\* the first offer that the user does not accept in the callback, and makes
\* at most QueueSize offers.
C25_DispatchOldestFirst ==
    lq.listening =>
        \A accepts \in 0..QueueSize :
            /\ ~dispatch_connections(LqNow, accepts).fault
            /\ OffersReady(accepts)
            /\ OffersStop(accepts)
            /\ OffersOldestFirst(accepts)

\* Two ready entries are in the queue and dispatch_connections offers the
\* one that was accepted later, first.
C25_NewerOfferedFirst ==
    /\ lq.listening /\ Ready = {1, 2} /\ Before(1, 2)
    /\ Offered(1) = <<2, 1>>

\* What holds of dispatch_connections: the offers are occupied ready entries,
\* they stop at the first that is not accepted and are QueueSize at most, and
\* they are oldest first as long as every ready entry was accepted less than
\* WorkingTimeSpanTicks ago.
C25_DispatchWithinTimeSpan ==
    lq.listening =>
        \A accepts \in 0..QueueSize :
            /\ ~dispatch_connections(LqNow, accepts).fault
            /\ OffersReady(accepts)
            /\ OffersStop(accepts)
            /\ (Ready \cap lq.aged = {}) => OffersOldestFirst(accepts)

\* ---------------------------------------------------------------------------
\* m_current_pcb and the aborts made in user callbacks
\* ---------------------------------------------------------------------------

\* What the calls that the application can make from a callback leave behind.
UserCalls ==
    {con_reset(TcpNow, c, r) : c \in {d \in Cons : cons[d].pcb # PcbNull}, r \in BOOLEAN}
    \cup {create_connection(TcpNow, c, RemoteOf(c), iss, err) :
             c \in {d \in Cons : cons[d].pcb = PcbNull},
             iss \in IssChoices, err \in BOOLEAN}
    \cup {pcb_end_sending(TcpNow, cons[c].pcb) :
             c \in {d \in Cons : /\ cons[d].pcb # PcbNull
                                 /\ snd_open_in_state(pcbs[cons[d].pcb].state)}}
    \cup {con_accept(TcpNow, c, OpenWnd) :
             c \in {d \in Cons : /\ cons[d].pcb = PcbNull
                                 /\ m_listener.m_accept_pcb # PcbNull}}
    \cup {[unlink_listener(TcpNow) EXCEPT !.lis.m_listening = FALSE] :
             x \in {y \in {1} : m_listener.m_listening}}

AbortedBy(T2) == {T2.obs.aborts[i].pcb : i \in 1..Len(T2.obs.aborts)}

\* A call made in a callback clears m_current_pcb if it aborts that PCB and
\* leaves it as it is if it does not.
CallKeepsOrClears(T2) ==
    T2.cur = IF m_current_pcb \in AbortedBy(T2) THEN PcbNull ELSE m_current_pcb

\* C26 (abort detection in callbacks): in every reachable state,
\* m_current_pcb is null or the PCB whose input processing has called the
\* user callback in progress, and that PCB is not CLOSED; in the listener's
\* connectionEstablished callback m_current_pcb is null if and only if
\* pcb_abort has closed the PCB under processing since the callback was
\* called; every call the application can make in a callback clears
\* m_current_pcb if it aborts the PCB it points to and leaves it unchanged if
\* it aborts another PCB or none; and when connectionAborted returns into the
\* pcb_abort of the PCB under processing, m_current_pcb is null at the end.
C26_CurrentPcbPointer ==
    /\ m_current_pcb # PcbNull =>
          /\ tcp_cb.kind # "none" /\ tcp_cb.pcb = m_current_pcb
          /\ pcbs[m_current_pcb].state # "CLOSED"
          /\ ~tcp_cb.aborted
    /\ tcp_cb.kind = "connectionEstablished" =>
          (m_current_pcb = PcbNull <=> tcp_cb.aborted)
    /\ tcp_cb.kind # "none" => \A T2 \in UserCalls : CallKeepsOrClears(T2)
    /\ (tcp_cb.kind = "connectionAborted" /\ tcp_cb.after = "pcb_abort") =>
          aborted_return(TcpNow, tcp_cb.pcb, PlainOut).cur = PcbNull

\* C26 witness: in the connectionEstablished callback of the PCB under
\* processing the application can abort that PCB, which clears
\* m_current_pcb, and another PCB, which leaves it.
C26_Witness ==
    /\ tcp_cb.kind = "connectionEstablished" /\ m_current_pcb = tcp_cb.pcb
    /\ \E T2 \in UserCalls : m_current_pcb \in AbortedBy(T2) /\ T2.cur = PcbNull
    /\ \E T2 \in UserCalls :
          /\ AbortedBy(T2) # {} /\ m_current_pcb \notin AbortedBy(T2)
          /\ T2.cur = m_current_pcb

\* The PCB under processing was aborted in the callback, which has not
\* returned yet.
C26_AbortedInCallback ==
    /\ tcp_cb.kind = "connectionEstablished" /\ tcp_cb.aborted
    /\ m_current_pcb = PcbNull

\* The PCB under processing was aborted in the callback and is in use again,
\* for a connection that the application started in the same callback.
C26_AbortedAndReused ==
    /\ tcp_cb.kind = "connectionEstablished" /\ tcp_cb.aborted
    /\ m_current_pcb = PcbNull
    /\ pcbs[tcp_cb.pcb].state = "SYN_SENT"

\* ---------------------------------------------------------------------------
\* The two PCB indexes
\* ---------------------------------------------------------------------------

\* C27 (index partition): in every reachable state, a PCB is in the active
\* index if and only if its state is neither CLOSED nor TIME_WAIT and in the
\* time-wait index if and only if its state is TIME_WAIT, no PCB is in both
\* indexes, and no two PCBs in the indexes have the same address tuple.
C27_IndexPartition ==
    /\ \A p \in Pcbs :
          /\ p \in m_pcb_index_active <=> pcbs[p].state \notin {"CLOSED", "TIME_WAIT"}
          /\ p \in m_pcb_index_timewait <=> pcbs[p].state = "TIME_WAIT"
    /\ m_pcb_index_active \cap m_pcb_index_timewait = {}
    /\ \A p, q \in Indexed : pcbs[p].key = pcbs[q].key => p = q

\* C27 witness: one PCB is in TIME_WAIT and in the time-wait index, another
\* is open and in the active index, and both have the same remote address.
C27_Witness ==
    \E p \in m_pcb_index_timewait, q \in m_pcb_index_active :
        /\ pcbs[p].state = "TIME_WAIT" /\ pcbs[q].state = "ESTABLISHED"
        /\ pcbs[p].key \div (EphemeralPortLast + 1)
              = pcbs[q].key \div (EphemeralPortLast + 1)

\* ---------------------------------------------------------------------------
\* IpReassembly: the shape of the hole list
\* ---------------------------------------------------------------------------

\* The bytes of entry i from lo up to hi that a fragment has been copied to.
ReceivedIn(i, lo, hi) == {c \in CellsIn(lo, hi) : written[i][c] >= 1}

\* The hole list hl of entry i is well formed.
WellFormedHoles(i, hl) ==
    /\ \A n \in 1..Len(hl) :
          /\ hl[n].size # Indeterminate
          /\ hl[n].size >= HoleDescriptorSize
          /\ hl[n].off >= 0 /\ hl[n].off <= MaxReassSize
          /\ hl[n].off + hl[n].size <= ReassBufferSize
    /\ \A n \in 1..(Len(hl) - 1) :
          /\ hl[n].off < hl[n + 1].off
          /\ hl[n].off + hl[n].size < hl[n + 1].off
          /\ ReceivedIn(i, hl[n].off + hl[n].size, hl[n + 1].off) # {}

\* C28 (hole-list well-formedness): in every reachable state the hole list of
\* every live entry, followed from first_hole_offset, reaches the null link
\* through intact descriptors at strictly increasing offsets; every hole is
\* at least HoleDescriptorSize long, starts at most at MaxReassSize and ends
\* inside the buffer; and between the end of a hole and the start of the next
\* there is at least one byte that a fragment wrote.
C28_HoleListWellFormed ==
    \A i \in Entries : Live(i) => WellFormedHoles(i, HoleList(m_reass_packets[i]))

\* C28 witness: a fragment joined an existing entry and left it live with two
\* holes, the first of which starts after received data.
C28_Witness ==
    /\ reass_last.op = "reass" /\ reass_last.found
    /\ Live(reass_last.idx)
    /\ LET hl == HoleList(m_reass_packets[reass_last.idx])
       IN /\ Len(hl) = 2 /\ hl[1].off > 0
          /\ ReceivedIn(reass_last.idx, 0, hl[1].off) # {}

\* ---------------------------------------------------------------------------
\* IpReassembly: completion
\* ---------------------------------------------------------------------------

\* The last call of reassembleIp4 passed the completion test and handed a
\* datagram back.
Completed == reass_last.op = "reass" /\ reass_last.ret

\* The buffer of the entry that call used holds, at offset data_length, the
\* descriptor of a hole that spans to ReassBufferSize and has a null link.
OnlyTerminalHoleLeft ==
    LET data == m_reass_packets[reass_last.idx].data
    IN  /\ hole_offset_valid(reass_last.len)
        /\ GetHoleSize(data, reass_last.len) = ReassBufferSize - reass_last.len
        /\ GetNextHoleOffset(data, reass_last.len) = ReassNullLink
        /\ reass_last.len + HoleDescriptorSize <= ReassBufferSize

\* C29 (completion shape): a call of reassembleIp4 that passes the completion
\* test fails none of the assertions made at completion (first_hole_offset
\* equals data_length, the hole there spans to ReassBufferSize and its link is
\* null), leaves that hole as the only one in the buffer, returns data_length
\* as the length of the datagram and frees the entry; and the call after it
\* does not find the entry again, so the datagram is not handed back a second
\* time from it.
C29_CompletionShape ==
    /\ [](Completed =>
            /\ ~reass_last.fault /\ ~reass_last.inval
            /\ reass_last.len > 0
            /\ OnlyTerminalHoleLeft
            /\ ~Live(reass_last.idx))
    /\ [][(Completed /\ CallStep) =>
            ~(reass_last'.found /\ reass_last'.idx = reass_last.idx)]_vars

\* C29 witness: the fragment that filled the last gap of an existing entry
\* completed the datagram of DgramLen bytes, which fills the data area: the
\* hole left is just the room for one descriptor behind it.
C29_Witness ==
    /\ Completed /\ reass_last.found
    /\ reass_last.len = DgramLen
    /\ GetHoleSize(m_reass_packets[reass_last.idx].data, DgramLen) = HoleDescriptorSize

\* ---------------------------------------------------------------------------
\* IpReassembly: expiry
\* ---------------------------------------------------------------------------

\* The expiration_time of entry i has passed.
Overdue(i) == Live(i) /\ reass_life.left[i] < 0

\* A step that is one expiry of the purge timer.
TimerStep == now' = now /\ reass_last'.op = "timer"

\* A call of reassembleIp4 that found an entry found one whose
\* expiration_time had not passed, and left its expiration_time as it was.
MatchInTime ==
    (CallStep /\ reass_last'.found) =>
        /\ ~Overdue(reass_last'.idx)
        /\ m_reass_packets'[reass_last'.idx].expiration_time
              = m_reass_packets[reass_last'.idx].expiration_time

\* A call that allocated an entry set its expiration_time to
\* now + min(ttl, MaxReassTimeSeconds) seconds.
AllocSetsExpiration ==
    (CallStep /\ ~reass_last'.found /\ reass_last'.idx # 0) =>
        m_reass_packets'[reass_last'.idx].expiration_time
            = TimeAdd(now, MinValue(reass_last'.ttl, MaxReassTimeSeconds) * TimeFreq)

\* A lookup (every call with payload) and an expiry of the purge timer free
\* every entry whose expiration_time has passed: the entry is free afterwards
\* or was allocated anew by the call.
PurgesOverdue ==
    ((CallStep /\ reass_last'.frag.len > 0) \/ TimerStep) =>
        \A i \in Entries :
            Overdue(i) =>
                \/ m_reass_packets'[i].first_hole_offset = ReassNullLink
                \/ (reass_last'.idx = i /\ ~reass_last'.found)

C30_MatchedAtExpiration ==
    /\ reass_last.op = "reass" /\ reass_last.found
    /\ Live(reass_last.idx) /\ reass_life.left[reass_last.idx] = 0

\* ---------------------------------------------------------------------------
\* TCP: the retransmission timeout
\* ---------------------------------------------------------------------------

\* The RtxTimer can expire for a retransmission of data on a PCB that has its
\* TcpConnection and an open send window.
RtoDue == CcCanOutput /\ cc.con /\ "IDLE_TIMER" \notin cc.flags /\ CcFlight(cc) > 0

\* What the timeout leaves of the congestion state c, as c2.
RtoCongestion(c, c2) ==
    /\ c2.ssthresh = IF "RTX_ACTIVE" \in c.flags THEN c.ssthresh
                     ELSE MaxValue(CcFlight(c) \div 2, 2 * c.snd_mss)
    /\ c2.cwnd = c.snd_mss /\ c2.cwnd_acked = 0
    /\ c2.snd_mss = c.snd_mss
    /\ {"RTX_ACTIVE", "RECOVER"} \subseteq c2.flags /\ "CWND_INIT" \notin c2.flags
    /\ c2.recover = c.snd_nxt
    /\ c2.num_dupack = 0
    /\ ~c2.fault

\* The retransmission starts at the head of the send buffer, which is at
\* snd_una, and moves snd_nxt only by the unsent data it takes along.
RtoRetransmits(c, c2, queued, sends) ==
    /\ c2.rtx = IF sends THEN <<c.snd_una>> ELSE <<>>
    /\ c2.snd_una = c.snd_una
    /\ c2.snd_nxt = IF sends THEN seq_add(c.snd_nxt, queued) ELSE c.snd_nxt

\* PCBs and connections for pcb_requeue_everything: PCB 1 in a state that can
\* output, with connection 1, whose send buffer holds b bytes of which cu
\* are not sent yet, with or without a FIN that is pending or was sent.
RequeueInputs ==
    { [TcpNow EXCEPT
          !.pcbs[1] = [ClosedPcb EXCEPT !.state = st, !.con = 1, !.flags = fl],
          !.cons[1] = [NoConnection EXCEPT !.pcb = 1, !.snd_buf = b,
                                           !.snd_buf_cur = b - sent]] :
        st \in {"ESTABLISHED", "CLOSE_WAIT", "FIN_WAIT_1", "LAST_ACK"},
        fl \in SUBSET {"FIN_PENDING", "FIN_SENT"},
        b \in 0..MaxSndBuf, sent \in 0..MaxSndBuf }

Requeued(T) ==
    /\ pcb_requeue_everything(T, 1).cons[1].snd_buf_cur = T.cons[1].snd_buf
    /\ pcb_requeue_everything(T, 1).cons[1].snd_buf = T.cons[1].snd_buf
    /\ "FIN_PENDING" \in pcb_requeue_everything(T, 1).pcbs[1].flags
          <=> ("FIN_PENDING" \in T.pcbs[1].flags
               \/ T.pcbs[1].state \in {"FIN_WAIT_1", "LAST_ACK"})

\* C31 (retransmission timeout, as the code has it): when the RtxTimer
\* expires for a retransmission on a PCB that has its TcpConnection and an
\* open send window, the handler leaves ssthresh recomputed only if
\* RTX_ACTIVE was clear, cwnd = snd_mss, RECOVER set with recover equal to
\* snd_nxt as it was when the timer expired, num_dupack = 0, and retransmits
\* from snd_una; the retransmitted segment takes unsent data along, which
\* moves snd_nxt past recover. The new rto is min(MaxRtxTime, 2 * rto) for
\* every rto, and pcb_requeue_everything sets snd_buf_cur to the whole send
\* buffer and FIN_PENDING if sending was closed.
C31_RtoPostState ==
    /\ RtoDue =>
          \A queued \in QueuedChoices, sends \in BOOLEAN :
              RtoInput(queued, sends) =>
                  /\ RtoCongestion(cc, cc_rtx_handler(cc, queued, sends))
                  /\ RtoRetransmits(cc, cc_rtx_handler(cc, queued, sends), queued, sends)
    /\ \A rto \in 0..RttTypeMax : DoubledRto(rto) = MinValue(MaxRtxTime, 2 * rto)
    /\ \A T \in RequeueInputs : T.cons[1].snd_buf_cur >= 0 => Requeued(T)

\* C31 witness: the timer can expire a second time (RTX_ACTIVE is set) after
\* duplicate ACKs were counted, with an amount in flight that would give
\* another ssthresh, and the handler leaves ssthresh as it is and clears the
\* count.
C31_Witness ==
    /\ RtoDue /\ "RTX_ACTIVE" \in cc.flags
    /\ cc.num_dupack > 0
    /\ cc.ssthresh # MaxValue(CcFlight(cc) \div 2, 2 * cc.snd_mss)
    /\ cc_rtx_handler(cc, 0, TRUE).ssthresh = cc.ssthresh
    /\ cc_rtx_handler(cc, 0, TRUE).num_dupack = 0

\* C31 as claimed: after the handler recover = snd_nxt.
C31_RecoverIsSndNxt ==
    RtoDue =>
        \A queued \in QueuedChoices, sends \in BOOLEAN :
            RtoInput(queued, sends) =>
                cc_rtx_handler(cc, queued, sends).recover
                    = cc_rtx_handler(cc, queued, sends).snd_nxt

\* ---------------------------------------------------------------------------
\* C32: validity of recover
\* ---------------------------------------------------------------------------

\* RECOVER is set on a PCB that can send and has its TcpConnection.
RecoverValid == CcCanOutput /\ cc.con /\ "RECOVER" \in cc.flags

\* recover lies between snd_una and snd_nxt, both included.
RecoverInRange(c) == seq_diff(c.recover, c.snd_una) <= CcFlight(c)

\* An ACK of acked bytes while RECOVER is set: the flag is cleared when the
\* new snd_una is beyond recover and only then; while it stays set recover
\* is unchanged.
RecoverAck(acked, rtt_ends, idle) ==
    LET c2 == cc_ack_input(cc, acked, rtt_ends, idle)
    IN  /\ ("RECOVER" \notin c2.flags) = seq_lt2(cc.recover, c2.snd_una)
        /\ "RECOVER" \in c2.flags => (c2.recover = cc.recover /\ RecoverInRange(c2))

\* The third duplicate ACK while RECOVER is set: nothing is retransmitted,
\* num_dupack is left below FastRtxDupAcks and nothing else changes.
ThirdDupAckRefused(queued) ==
    LET c2 == cc_dup_ack_input(cc, queued)
    IN  /\ c2.rtx = <<>>
        /\ c2.num_dupack = FastRtxDupAcks - 1
        /\ c2 = [cc EXCEPT !.num_dupack = FastRtxDupAcks - 1]

PmtuCallable(c) ==
    c.con /\ ~c.fault /\ c.state \notin {"CLOSED", "SYN_RCVD", "TIME_WAIT"}

\* c2 differs from c in snd_mss, ssthresh and cwnd at most: nothing was
\* sent (rtx, snd_nxt), the state and the flags (IDLE_TIMER, OUT_PENDING
\* among them) are as they were.
PmtuFrame(c, c2) ==
    c2 = [c EXCEPT !.snd_mss = c2.snd_mss, !.ssthresh = c2.ssthresh, !.cwnd = c2.cwnd]

PmtuChangeOf(c, pmtu) ==
    LET c2 == pcb_pmtu_changed(c, pmtu)
    IN  /\ PmtuFrame(c, c2)
        /\ c2.rtx = c.rtx /\ c2.state = c.state /\ c2.flags = c.flags
        /\ c.state = "SYN_SENT" => c2 = [c EXCEPT !.snd_mss = pmtu]
        /\ ( /\ c.state # "SYN_SENT"
             /\ \/ ~can_output_in_state(c.state)
                \/ pcb_calc_snd_mss_from_pmtu(pmtu) = c.snd_mss ) => c2 = c
        /\ pcb_pmtu_changed(c2, pmtu) = c2

\* C33 (PMTU change): in every reachable state where pcb_pmtu_changed may be
\* called, and for every PMTU, the call changes nothing but snd_mss,
\* ssthresh and cwnd: it retransmits nothing, leaves the state and every
\* flag as they were; in SYN_SENT it changes snd_mss only; it changes
\* nothing if the computed snd_mss is the current one or the state does not
\* allow output (FIN_WAIT_2, taken here with the variables of the reachable
\* state); and a second call with the same PMTU changes nothing.
C33_PmtuChangeFrame ==
    PmtuCallable(cc) =>
        \A pmtu \in Pmtus :
            /\ PmtuChangeOf(cc, pmtu)
            /\ can_output_in_state(cc.state) =>
                  PmtuChangeOf([cc EXCEPT !.state = "FIN_WAIT_2"], pmtu)

\* C33 witness: a retransmission timeout has happened (RTX_ACTIVE)
\* and a PMTU change lowers snd_mss: cwnd is set to the
\* new snd_mss, ssthresh stays, and a second call leaves all three.
C33_Witness ==
    /\ PmtuCallable(cc) /\ cc.state = "ESTABLISHED"
    /\ "RTX_ACTIVE" \in cc.flags /\ "CWND_INIT" \notin cc.flags
    /\ CcFlight(cc) > 0
    /\ \E pmtu \in Pmtus :
          /\ pcb_pmtu_changed(cc, pmtu).snd_mss < cc.snd_mss
          /\ pcb_pmtu_changed(cc, pmtu).cwnd = pcb_pmtu_changed(cc, pmtu).snd_mss
          /\ pcb_pmtu_changed(cc, pmtu).ssthresh = cc.ssthresh
          /\ pcb_pmtu_changed(pcb_pmtu_changed(cc, pmtu), pmtu) = pcb_pmtu_changed(cc, pmtu)

\* The PMTU changes while the SYN is in flight: only snd_mss, which keeps
\* the PMTU, changes.
C33_SynSent ==
    /\ cc.state = "SYN_SENT" /\ cc.con
    /\ \E pmtu \in Pmtus : pcb_pmtu_changed(cc, pmtu).snd_mss # cc.snd_mss

\* ---------------------------------------------------------------------------
\* TCP: the output of one connection, segment by segment
\* ---------------------------------------------------------------------------

OutSndWnds == {0, 1, MaxOutQueued + 1}
OutCwnds == {snd_mss, MaxOutQueued + 1}

\* The PCB and its TcpConnection as the state of the whole stack.
OutT(s) ==
    [pcbs |-> <<s.pcb>>,
     cons |-> <<[snd_buf |-> s.snd_buf, snd_buf_cur |-> s.snd_buf_cur,
                 snd_wnd |-> s.snd_wnd]>>]

OutFlight(s) == seq_diff(s.pcb.snd_nxt, s.pcb.snd_una)

\* Where the handler that runs next starts from: nothing sent yet; the count
\* of SYNs is kept until the handler after the one that took the SYN-ACK.
OutNow ==
    [snd EXCEPT !.segs = <<>>, !.last = NoOutput, !.sample = "none",
                !.syn_tx = IF snd.pcb.state = "SYN_SENT" THEN @ ELSE 0]

\* The segments that the loop of pcb_output_active sends, each with its
\* offset from snd_una, its data length, its FIN flag, and the unsent data
\* and the window that were left before it.
RECURSIVE OutSegments(_, _, _, _)
OutSegments(w, snd_buf_len, data_threshold, fail_at) ==
    IF ~((w.cur > data_threshold \/ w.fin) /\ w.rem_wnd > 0) \/ fail_at = 1 THEN <<>>
    ELSE <<[mode |-> "normal", off |-> snd_buf_len - w.cur,
            dlen |-> SegDataLen(w.cur, w.rem_wnd),
            fin |-> SegHasFin(w.cur, w.fin, w.rem_wnd),
            cur |-> w.cur, rem_wnd |-> w.rem_wnd]>>
         \o OutSegments(OutputSent(w, snd_buf_len), snd_buf_len, data_threshold,
                        IF fail_at = 0 THEN 0 ELSE fail_at - 1)

SegCovers(seg, k) ==
    k >= seg.off /\ k < seg.off + seg.dlen + (IF seg.fin THEN 1 ELSE 0)

\* The transmissions counted after segs were sent with base bytes acked.
OutTx(tx, base, segs) ==
    [i \in OutPositions |->
        MinValue(2, tx[i] + Cardinality({j \in 1..Len(segs) : SegCovers(segs[j], i - base)}))]

\* pcb_output_active, normal mode: the window left beyond snd_buf_cur.
out_rem_wnd(s, cwnd) ==
    IF s.snd_buf - s.snd_buf_cur <= MinValue(s.snd_wnd, cwnd)
    THEN MinValue(s.snd_wnd, cwnd) - (s.snd_buf - s.snd_buf_cur)
    ELSE 0

\* (Delaying whatever is less than a segment, pushed or not.)
out_data_threshold_NoPush(s) == snd_mss - 1

\* pcb_output_active, normal mode: the length of unsent data above which
\* sending is not delayed.
out_data_threshold(s) == MinValue(s.snd_buf - s.snd_psh_index, snd_mss - 1)

out_start(s, cwnd) ==
    [rtt |-> s.rtt, err |-> "BUFFER_FULL", pcb |-> s.pcb, cur |-> s.snd_buf_cur,
     fin |-> "FIN_PENDING" \in s.pcb.flags, rem_wnd |-> out_rem_wnd(s, cwnd)]

\* The end of pcb_output_active: the idle timeout is stopped and the
\* retransmission timer is started if something is unacked or the window is
\* closed.
out_timers(s) == [s EXCEPT !.pcb = OutputTimers(OutT(s), 1).pcbs[1]]

out_done(s, cwnd, fail_at, w, segs) ==
    out_timers(
        [s EXCEPT !.pcb = w.pcb, !.rtt = w.rtt, !.snd_buf_cur = w.cur,
                  !.segs = @ \o segs,
                  !.tx = OutTx(@, s.acked, segs),
                  !.last = [mode |-> "normal",
                            failed |-> fail_at > 0 /\ LoopGoes(w, out_data_threshold(s)),
                            rem_wnd |-> w.rem_wnd,
                            full_wnd |-> MinValue(s.snd_wnd, cwnd)]])

\* pcb_output_active(pcb, false) with the congestion window cwnd; the
\* fail_at-th transmission fails (0: none).
out_active(s, cwnd, fail_at) ==
    out_done(s, cwnd, fail_at,
             OutputLoop(out_start(s, cwnd), s.snd_buf, out_data_threshold(s), fail_at),
             OutSegments(out_start(s, cwnd), s.snd_buf, out_data_threshold(s), fail_at))

\* pcb_output_active(pcb, true): one segment from the start of the send
\* buffer, within the peer's window but of one sequence count at least.
out_rtx_start(s) ==
    [rtt |-> s.rtt, err |-> "BUFFER_FULL", pcb |-> s.pcb, cur |-> s.snd_buf,
     fin |-> ~snd_open_in_state(s.pcb.state), rem_wnd |-> MaxValue(1, s.snd_wnd)]

out_rtx(s, fails) ==
    IF fails THEN [s EXCEPT !.last = [NoOutput EXCEPT !.mode = "rtx", !.failed = TRUE]]
    ELSE [s EXCEPT
            !.pcb = pcb_output_segment(s.pcb, s.snd_buf, s.snd_buf,
                                       out_rtx_start(s).fin, out_rtx_start(s).rem_wnd),
            !.rtt = segment_rtt(out_rtx_start(s), s.snd_buf),
            !.segs = @ \o <<[mode |-> "rtx", off |-> 0,
                             dlen |-> SegDataLen(s.snd_buf, out_rtx_start(s).rem_wnd),
                             fin |-> SegHasFin(s.snd_buf, out_rtx_start(s).fin,
                                               out_rtx_start(s).rem_wnd),
                             cur |-> s.snd_buf, rem_wnd |-> out_rtx_start(s).rem_wnd]>>,
            !.tx = OutTx(@, s.acked,
                         <<[off |-> 0,
                            dlen |-> SegDataLen(s.snd_buf, out_rtx_start(s).rem_wnd),
                            fin |-> SegHasFin(s.snd_buf, out_rtx_start(s).fin,
                                              out_rtx_start(s).rem_wnd)]>>),
            !.last = [NoOutput EXCEPT !.mode = "rtx"]]

\* (Keeping the measurement when the SYN is sent again.)
send_syn_rtt_Keeps(rtt, pcb, err) ==
    IF ~err /\ pcb.snd_nxt = pcb.snd_una THEN [rtt EXCEPT !.pending = TRUE] ELSE rtt

\* pcb_send_syn and the round-trip-time measurement: the first SYN that goes
\* out starts one, a SYN that goes out again stops it.
send_syn_rtt(rtt, pcb, err) ==
    IF err THEN rtt
    ELSE IF pcb.snd_nxt = pcb.snd_una THEN [rtt EXCEPT !.pending = TRUE]
    ELSE [rtt EXCEPT !.pending = FALSE]

out_send_syn(s, err) ==
    [s EXCEPT !.pcb = pcb_send_syn(s.pcb, err),
              !.rtt = send_syn_rtt(s.rtt, s.pcb, err),
              !.syn_tx = IF err THEN @ ELSE MinValue(2, @ + 1)]

\* create_connection.
out_connect(s, iss, err) ==
    out_send_syn([s EXCEPT !.pcb = [ClosedPcb EXCEPT !.state = "SYN_SENT", !.con = 1,
                                                     !.snd_una = iss, !.snd_nxt = iss,
                                                     !.tim = {"AbrtTimer", "RtxTimer"}]],
                 err)

\* How often the sequence number under measurement was transmitted.
OutTestTx(s) ==
    IF s.pcb.state = "SYN_SENT" THEN s.syn_tx
    ELSE IF s.acked + seq_diff(s.rtt.test_seq, s.pcb.snd_una) \in OutPositions
    THEN s.tx[s.acked + seq_diff(s.rtt.test_seq, s.pcb.snd_una)]
    ELSE 0

OutSample(s) == IF OutTestTx(s) = 1 THEN "once" ELSE "rtx"

OutCanOutput(s) ==
    /\ can_output_in_state(s.pcb.state)
    /\ pcb_has_snd_outstanding(OutT(s), 1)

\* The output at the end of pcb_input, if a handler asked for it.
out_input_end(s, cwnd, fail_at) ==
    IF "OUT_PENDING" \in s.pcb.flags /\ OutCanOutput(s)
    THEN out_active([s EXCEPT !.pcb.flags = @ \ {"OUT_PENDING"}], cwnd, fail_at)
    ELSE [s EXCEPT !.pcb.flags = @ \ {"OUT_PENDING"}]

\* The SYN-ACK arrives: the SYN is acknowledged, a pending measurement ends.
out_syn_acked(s, wnd) ==
    [s EXCEPT !.pcb.state = "ESTABLISHED",
              !.pcb.snd_una = s.pcb.snd_nxt,
              !.pcb.tim = @ \ {"AbrtTimer", "RtxTimer"},
              !.pcb.flags = IF s.snd_buf > 0 THEN @ \cup {"OUT_PENDING"} ELSE @,
              !.snd_wnd = wnd,
              !.rtt.pending = FALSE,
              !.sample = IF s.rtt.pending THEN OutSample(s) ELSE "none"]

\* pcb_output_handle_acked: the ACK of ack_num ends the measurement if
\* rtt_test_seq is before it.
acked_ends_rtt(rtt, ack_num) == rtt.pending /\ seq_lt2(rtt.test_seq, ack_num)

\* An ACK of acked > 0 sequence counts: the measurement, then snd_una, the
\* send buffer, snd_buf_cur and snd_psh_index.
out_acked(s, acked) ==
    [s EXCEPT
        !.rtt.pending = @ /\ ~acked_ends_rtt(s.rtt, seq_add(s.pcb.snd_una, acked)),
        !.sample = IF acked_ends_rtt(s.rtt, seq_add(s.pcb.snd_una, acked))
                   THEN OutSample(s) ELSE "none",
        !.pcb.snd_una = seq_add(@, acked),
        !.pcb.tim = @ \ {"RtxTimer"},
        !.pcb.flags = @ \ {"IDLE_TIMER"},
        !.snd_buf = @ - MinValue(acked, s.snd_buf),
        !.snd_buf_cur = MinValue(@, s.snd_buf - MinValue(acked, s.snd_buf)),
        !.snd_psh_index = MaxValue(0, @ - MinValue(acked, s.snd_buf)),
        !.acked = @ + MinValue(acked, s.snd_buf)]

\* pcb_update_snd_wnd, with the window that the segment announces.
out_update_snd_wnd(s, wnd) ==
    IF wnd = s.snd_wnd THEN s
    ELSE [s EXCEPT
            !.snd_wnd = wnd,
            !.pcb.flags = IF pcb_has_snd_outstanding(OutT(s), 1)
                          THEN @ \cup {"OUT_PENDING"} ELSE @,
            !.pcb.tim = IF /\ pcb_has_snd_outstanding(OutT(s), 1)
                           /\ (wnd = 0) # (s.snd_wnd = 0)
                        THEN @ \ {"RtxTimer"} ELSE @]

\* What follows in pcb_input: our FIN is now acknowledged (FIN_WAIT_1 only
\* here), or output is asked for, or the idle timeout is started.
out_ack_end(s, acked, cwnd, fail_at) ==
    IF acked > 0 /\ pcb_fin_acked(s.pcb) /\ s.pcb.state = "FIN_WAIT_1"
    THEN [s EXCEPT !.pcb.state = "FIN_WAIT_2",
                   !.pcb.tim = @ \ {"OutputTimer", "RtxTimer"},
                   !.pcb.flags = @ \ {"OUT_PENDING"}]
    ELSE IF pcb_has_snd_outstanding(OutT(s), 1)
    THEN out_input_end([s EXCEPT !.pcb.flags = @ \cup {"OUT_PENDING"}], cwnd, fail_at)
    ELSE IF acked = 0 THEN out_input_end(s, cwnd, fail_at)
    ELSE [s EXCEPT !.pcb.flags = (@ \ {"OUT_PENDING", "OUT_RETRY"}) \cup {"IDLE_TIMER"},
                   !.pcb.tim = (@ \ {"OutputTimer"}) \cup {"RtxTimer"}]

out_ack_input(s, acked, wnd, cwnd, fail_at) ==
    out_ack_end(out_update_snd_wnd(IF acked > 0 THEN out_acked(s, acked) ELSE s, wnd),
                acked, cwnd, fail_at)

\* pcb_requeue_everything.
out_requeue_everything(s) ==
    [s EXCEPT !.snd_buf_cur = s.snd_buf,
              !.pcb.flags = IF ~snd_open_in_state(s.pcb.state)
                            THEN @ \cup {"FIN_PENDING"} ELSE @]

\* pcb_rtx_timer_handler_core on a PCB that has its TcpConnection, entered
\* with the timer expired: the idle timeout; the SYN again; nothing if
\* nothing is unacked and the window is open; a window probe if the window
\* is closed; else everything is requeued and sent with a congestion window
\* of one segment.
out_rtx_timer(s, fail_at) ==
    IF "IDLE_TIMER" \in s.pcb.flags THEN [s EXCEPT !.pcb.flags = @ \ {"IDLE_TIMER"}]
    ELSE IF s.pcb.state = "SYN_SENT"
    THEN out_send_syn([s EXCEPT !.pcb.tim = @ \cup {"RtxTimer"}], fail_at = 1)
    ELSE IF ~pcb_has_snd_unacked(OutT(s), 1) /\ s.snd_wnd # 0 THEN s
    ELSE IF s.snd_wnd = 0
    THEN out_rtx([s EXCEPT !.pcb.tim = @ \cup {"RtxTimer"}], fail_at = 1)
    ELSE out_active(out_requeue_everything([s EXCEPT !.pcb.tim = @ \cup {"RtxTimer"}]),
                    snd_mss, fail_at)

\* TcpConnection: data is appended to the send buffer, pushed or not; data
\* is pushed; sending is closed.
out_extend(s, amount, push) ==
    [s EXCEPT !.snd_buf = @ + amount, !.snd_buf_cur = @ + amount,
              !.snd_psh_index = IF push THEN s.snd_buf + amount ELSE @,
              !.pcb = pcb_set_output_timer_for_output(@)]

out_push(s) ==
    [s EXCEPT !.snd_psh_index = s.snd_buf,
              !.pcb = pcb_set_output_timer_for_output(@)]

out_end_sending(s) ==
    [s EXCEPT !.snd_psh_index = s.snd_buf,
              !.pcb = pcb_set_output_timer_for_output(
                          [@ EXCEPT !.state = "FIN_WAIT_1",
                                    !.flags = @ \cup {"FIN_PENDING"}])]

OutStep(s) ==
    /\ snd' = s
    /\ UNCHANGED <<pcbs, cons, m_listener, m_unrefed_pcbs_list, m_pcb_index_active,
                   m_pcb_index_timewait, m_current_pcb, m_next_ephemeral_port,
                   tcp_cb, tcp_fault, unref_age, abrt_after, cc, lq, heap>>
    /\ UNCHANGED reass_vars

OutExpire(s, timer) == [s EXCEPT !.pcb.tim = @ \ {timer}]

OutConnect(iss, err) ==
    /\ snd.pcb.state = "CLOSED"
    /\ OutStep(out_connect(OutClosed, iss, err))

OutSynAck(wnd, cwnd, fail_at) ==
    /\ snd.pcb.state = "SYN_SENT" /\ snd.pcb.snd_nxt # snd.pcb.snd_una
    /\ OutStep(out_input_end(out_syn_acked(OutNow, wnd), cwnd, fail_at))

OutExtend(amount, push) ==
    /\ snd.pcb.state = "ESTABLISHED"
    /\ snd.acked + snd.snd_buf + amount <= MaxOutQueued
    /\ OutStep(out_extend(OutNow, amount, push))

OutPush ==
    /\ snd.pcb.state = "ESTABLISHED"
    /\ snd.snd_buf > 0 /\ snd.snd_psh_index < snd.snd_buf
    /\ OutStep(out_push(OutNow))

OutCloseSending ==
    /\ snd.pcb.state = "ESTABLISHED"
    /\ OutStep(out_end_sending(OutNow))

OutOutputTimer(cwnd, fail_at) ==
    /\ "OutputTimer" \in snd.pcb.tim
    /\ OutCanOutput(snd)
    /\ OutStep(out_active(OutExpire(OutNow, "OutputTimer"), cwnd, fail_at))

\* A segment with an acceptable ACK and a window; the output it leads to
\* goes out (transmissions fail at the OutputTimer and at retransmissions).
OutRecvAck(acked, wnd, cwnd) ==
    /\ can_output_in_state(snd.pcb.state)
    /\ acked <= OutFlight(snd)
    /\ acked = 0 \/ pcb_has_snd_outstanding(OutT(snd), 1)
    /\ OutStep(out_ack_input(OutNow, acked, wnd, cwnd, 0))

\* The third duplicate ACK: the segment at snd_una is sent again, then the
\* output at the end of pcb_input.
OutFastRtx(err, cwnd, fail_at) ==
    /\ OutCanOutput(snd)
    /\ pcb_has_snd_unacked(OutT(snd), 1)
    /\ OutFlight(snd) > 0
    /\ OutStep(out_input_end([out_rtx(OutNow, err) EXCEPT
                                 !.pcb.flags = @ \cup {"OUT_PENDING"}], cwnd, fail_at))

OutRtxTimer(fail_at) ==
    /\ "RtxTimer" \in snd.pcb.tim
    /\ snd.pcb.state = "SYN_SENT" \/ OutCanOutput(snd)
    /\ OutStep(out_rtx_timer(OutExpire(OutNow, "RtxTimer"), fail_at))

OutAbort ==
    /\ snd.pcb.state # "CLOSED"
    /\ OutStep(OutClosed)

NextOut ==
    \/ \E iss \in IssChoices, err \in BOOLEAN : OutConnect(iss, err)
    \/ \E wnd \in OutSndWnds, cwnd \in OutCwnds, fail_at \in 0..1 :
          OutSynAck(wnd, cwnd, fail_at)
    \/ \E amount \in 1..MaxOutQueued, push \in BOOLEAN : OutExtend(amount, push)
    \/ OutPush
    \/ OutCloseSending
    \/ \E cwnd \in OutCwnds, fail_at \in 0..2 : OutOutputTimer(cwnd, fail_at)
    \/ \E acked \in 0..(MaxOutQueued + 1), wnd \in OutSndWnds, cwnd \in OutCwnds :
          OutRecvAck(acked, wnd, cwnd)
    \/ \E err \in BOOLEAN, cwnd \in OutCwnds, fail_at \in 0..1 :
          OutFastRtx(err, cwnd, fail_at)
    \/ \E fail_at \in 0..2 : OutRtxTimer(fail_at)
    \/ OutAbort

SpecOut == Init /\ [][NextOut]_vars

\* ---------------------------------------------------------------------------
\* C34: the segments of normal-mode output respect snd_mss and the window
\* ---------------------------------------------------------------------------

SegRangeEnd(seg) == seg.off + seg.dlen + (IF seg.fin THEN 1 ELSE 0)

\* C34 (window and MSS in normal mode): every segment that the handler that
\* ran last sent in normal mode carries at most snd_mss bytes of data and
\* ends, its FIN counted, at most min(snd_wnd, cwnd) after snd_una; if it
\* carries a FIN, it carries all the data that was unsent before it and the
\* FIN's sequence number is within that window.
C34_SegmentsWithinWindow ==
    \A i \in 1..Len(snd.segs) :
        snd.segs[i].mode = "normal" =>
            /\ snd.segs[i].dlen <= snd_mss
            /\ SegRangeEnd(snd.segs[i]) <= snd.last.full_wnd
            /\ snd.segs[i].fin =>
                  /\ snd.segs[i].dlen = snd.segs[i].cur
                  /\ snd.segs[i].off + snd.segs[i].dlen < snd.last.full_wnd

\* C34 witness: more than a segment of data and a FIN were queued: the
\* first segment is cut at snd_mss and the last one takes the FIN.
C34_Witness ==
    /\ Len(snd.segs) >= 2
    /\ snd.segs[1].mode = "normal"
    /\ snd.segs[1].cur > snd_mss /\ snd.segs[1].dlen = snd_mss
    /\ snd.segs[Len(snd.segs)].fin /\ snd.segs[Len(snd.segs)].dlen > 0

\* The window, not snd_mss, cuts a segment short and keeps the FIN back.
C34_WindowCuts ==
    /\ Len(snd.segs) >= 1
    /\ snd.segs[Len(snd.segs)].mode = "normal"
    /\ snd.segs[Len(snd.segs)].dlen < MinValue(snd_mss, snd.segs[Len(snd.segs)].cur)
    /\ SegRangeEnd(snd.segs[Len(snd.segs)]) = snd.last.full_wnd
    /\ "FIN_PENDING" \in snd.pcb.flags

\* ---------------------------------------------------------------------------
\* C35: what normal-mode output may leave unsent
\* ---------------------------------------------------------------------------

\* Normal-mode output has returned without a failed transmission and with
\* window left.
OutputReturnedInWindow ==
    snd.last.mode = "normal" /\ ~snd.last.failed /\ snd.last.rem_wnd > 0

\* C35 (delay bounded by the push index): when normal-mode pcb_output_active
\* has returned without a failed transmission and with window left, the unsent
\* data is shorter than snd_mss, it begins at or after snd_psh_index, and no
\* FIN is pending.
C35_DelayBoundedByPush ==
    OutputReturnedInWindow =>
        /\ snd.snd_buf_cur < snd_mss
        /\ snd.snd_buf - snd.snd_buf_cur >= snd.snd_psh_index
        /\ "FIN_PENDING" \notin snd.pcb.flags

\* C35 witness: data was pushed and more was appended without a push: the
\* output sends up to the push index and beyond in full segments and delays
\* the rest.
C35_Witness ==
    /\ OutputReturnedInWindow
    /\ Len(snd.segs) > 0
    /\ snd.snd_buf_cur > 0
    /\ snd.snd_psh_index > 0

\* A single pushed byte is sent at once.
C35_PushedByteSent ==
    /\ OutputReturnedInWindow
    /\ Len(snd.segs) = 1 /\ snd.segs[1].dlen = 1 /\ snd.segs[1].cur = 1
    /\ ~snd.segs[1].fin

\* ---------------------------------------------------------------------------
\* C36: Karn's rule
\* ---------------------------------------------------------------------------

\* C36 (Karn's rule): the handler that ran last has not completed a
\* round-trip-time measurement of a sequence number that was transmitted
\* more than once, and while a measurement is pending the sequence number
\* under measurement (the SYN in SYN_SENT) has been transmitted exactly once.
C36_KarnsRule ==
    /\ snd.sample # "rtx"
    /\ snd.rtt.pending => OutTestTx(snd) = 1

\* C36 witness: a measurement is completed by an ACK after other data was
\* sent twice.
C36_Witness ==
    /\ snd.sample = "once"
    /\ snd.pcb.state # "SYN_SENT"
    /\ \E i \in OutPositions : snd.tx[i] = 2

\* The measurement was given up: what is in flight was sent twice and no
\* measurement is pending.
C36_GivenUp ==
    /\ can_output_in_state(snd.pcb.state)
    /\ OutFlight(snd) > 0 /\ ~snd.rtt.pending
    /\ snd.acked \in OutPositions /\ snd.tx[snd.acked] = 2

\* The SYN was sent twice and the SYN-ACK has completed no measurement.
C36_SynSentTwice ==
    /\ snd.pcb.state = "ESTABLISHED" /\ snd.syn_tx = 2
    /\ snd.sample = "none" /\ snd.acked = 0 /\ snd.snd_buf = 0
    /\ OutFlight(snd) = 0

\* ---------------------------------------------------------------------------
\* C37: the idle timeout
\* ---------------------------------------------------------------------------

\* The RtxTimer of PCB p can expire as idle timeout.
IdleTimerDue(p) ==
    /\ tcp_cb.kind = "none"
    /\ "RtxTimer" \in pcbs[p].tim /\ "IDLE_TIMER" \in pcbs[p].flags

\* What pcb_rtx_timer_handler_core asserts in its idle branch.
IdleAssertionsHold(p) ==
    /\ can_output_in_state(pcbs[p].state)
    /\ ~pcb_has_snd_unacked(TcpNow, p)
    /\ pcbs[p].con # ConNull

\* The expiry clears IDLE_TIMER, sends nothing and starts no timer.
IdleHandled(p, o) ==
    /\ ~pcb_rtx_timer_handler(Expire(TcpNow, p, "RtxTimer"), p, o).fault
    /\ pcb_rtx_timer_handler(Expire(TcpNow, p, "RtxTimer"), p, o)
         = [Expire(TcpNow, p, "RtxTimer") EXCEPT !.pcbs[p].flags = @ \ {"IDLE_TIMER"}]

\* Congestion states at an idle timeout: snd_mss about the limits of the
\* initial window, cwnd from snd_mss to beyond the largest initial window.
IdleCwndInputs ==
    { [CcClosed EXCEPT !.state = "ESTABLISHED", !.con = TRUE, !.snd_mss = mss,
                       !.cwnd = w, !.ssthresh = 2 * mss, !.cwnd_acked = 1,
                       !.flags = fl \cup {"IDLE_TIMER"}] :
        mss \in 1..(InitCwndMssHigh + 1),
        w \in 1..(4 * (InitCwndMssHigh + 1) + 1),
        fl \in SUBSET {"CWND_INIT"} }

IdleCwnd(c) ==
    /\ cc_idle_timeout(c).cwnd = MinValue(c.cwnd, calc_initial_cwnd(c.snd_mss))
    /\ cc_idle_timeout(c).cwnd <= c.cwnd
    /\ cc_idle_timeout(c).cwnd_acked = 0
    /\ "IDLE_TIMER" \notin cc_idle_timeout(c).flags
    /\ ~cc_idle_timeout(c).fault

\* C37 (idle timeout): in every reachable state, a PCB whose RtxTimer is
\* set while IDLE_TIMER is set is in a state that can output, has its
\* TcpConnection and has no data or FIN that was sent and is unacknowledged,
\* so that the expiry fails no assertion, clears IDLE_TIMER and sends
\* nothing; and the idle branch leaves cwnd = min(old cwnd, initial cwnd) for
\* every snd_mss and cwnd >= snd_mss.
C37_IdleTimeout ==
    /\ \A p \in Pcbs :
          IdleTimerDue(p) =>
              /\ IdleAssertionsHold(p)
              /\ \A o \in OutParams : IdleHandled(p, o)
    /\ \A c \in IdleCwndInputs : c.cwnd >= c.snd_mss => IdleCwnd(c)

\* C37 witness: the idle timeout runs on a connection in FIN_WAIT_1 whose
\* data and FIN are still unsent: the peer's window is closed.
C37_Witness ==
    \E p \in Pcbs :
        /\ IdleTimerDue(p) /\ IdleAssertionsHold(p)
        /\ pcbs[p].state = "FIN_WAIT_1"
        /\ "FIN_PENDING" \in pcbs[p].flags
        /\ \A o \in OutParams : IdleHandled(p, o)

\* The idle timeout runs on an established connection with an empty send
\* buffer.
C37_IdleEstablished ==
    \E p \in Pcbs :
        /\ IdleTimerDue(p) /\ pcbs[p].state = "ESTABLISHED"
        /\ cons[pcbs[p].con].snd_buf = 0

\* The same in the model of output, where the third duplicate ACK
\* retransmits: the idle timeout is never set with something in flight.
C37_IdleInOutput ==
    ("RtxTimer" \in snd.pcb.tim /\ "IDLE_TIMER" \in snd.pcb.flags) =>
        /\ can_output_in_state(snd.pcb.state)
        /\ ~pcb_has_snd_unacked(OutT(snd), 1)
        /\ OutFlight(snd) = 0

\* ---------------------------------------------------------------------------
\* C38: no PCB is left behind
\* ---------------------------------------------------------------------------

\* Between two events PCB p is on the list of unreferenced PCBs and open.
UnreferencedOpen(p) ==
    /\ tcp_cb.kind = "none"
    /\ InList(m_unrefed_pcbs_list, p)
    /\ pcbs[p].state # "CLOSED"

\* The expiry of the AbrtTimer closes the PCB.
AbrtTimerCloses(p) ==
    Aborted(pcb_abrt_timer_handler(Expire(TcpNow, p, "AbrtTimer"), p), p)

\* After a step the PCB is closed, or was taken by a TcpConnection, or is
\* on offer to the listener, or still has the AbrtTimer set.
StillTimed(p) ==
    \/ pcbs[p].state = "CLOSED"
    \/ Referenced(p)
    \/ OnOffer(p)
    \/ "AbrtTimer" \in pcbs[p].tim

\* C38 (no PCB leak): in every reachable state between two events, every
\* PCB that is on the list of unreferenced PCBs and is not CLOSED has no
\* TcpConnection, has its AbrtTimer set, and the expiry of that timer closes
\* it; and no step takes the AbrtTimer from such a PCB unless it closes the
\* PCB or gives it to a TcpConnection or offers it to the listener.
C38_NoPcbLeak ==
    /\ [](\A p \in Pcbs :
             UnreferencedOpen(p) =>
                 /\ ~Referenced(p)
                 /\ "AbrtTimer" \in pcbs[p].tim
                 /\ AbrtTimerCloses(p))
    /\ [][\A p \in Pcbs : UnreferencedOpen(p) => StillTimed(p)']_vars

\* C38 witness: both PCBs are unreferenced and open, one abandoned with its
\* FIN to send, the other in TIME_WAIT, each with its AbrtTimer set.
C38_Witness ==
    \E p \in Pcbs, q \in Pcbs :
        /\ UnreferencedOpen(p) /\ UnreferencedOpen(q)
        /\ pcbs[p].state = "TIME_WAIT" /\ pcbs[q].state \in {"FIN_WAIT_1", "LAST_ACK"}
        /\ "AbrtTimer" \in pcbs[p].tim /\ "AbrtTimer" \in pcbs[q].tim
        /\ AbrtTimerCloses(p) /\ AbrtTimerCloses(q)

\* An unreferenced PCB in SYN_RCVD waits for the ACK of its SYN-ACK with the
\* AbrtTimer set.
C38_SynRcvd ==
    \E p \in Pcbs :
        /\ UnreferencedOpen(p) /\ pcbs[p].state = "SYN_RCVD"
        /\ "AbrtTimer" \in pcbs[p].tim /\ AbrtTimerCloses(p)

\* ---------------------------------------------------------------------------
\* C39: which PCB is taken for a new connection
\* ---------------------------------------------------------------------------

\* A CLOSED PCB is on the list of unreferenced PCBs.
FreePcbListed ==
    \E q \in Pcbs : InList(m_unrefed_pcbs_list, q) /\ pcbs[q].state = "CLOSED"

\* C39 (eviction prefers free PCBs): in every reachable state in which a
\* CLOSED PCB is on the list of unreferenced PCBs, allocate_pcb aborts no
\* PCB and returns a PCB that was CLOSED.
C39_PrefersFreePcb ==
    FreePcbListed =>
        /\ allocate_pcb(TcpNow).obs.aborts = <<>>
        /\ pcbs[allocate_pcb(TcpNow).obs.alloc].state = "CLOSED"

\* What holds instead: allocate_pcb aborts an open PCB only if that PCB is
\* the last of the list, whatever stands before it.
C39_AbortsOnlyTheTail ==
    m_unrefed_pcbs_list # <<>> =>
        \A i \in 1..Len(allocate_pcb(TcpNow).obs.aborts) :
            /\ allocate_pcb(TcpNow).obs.aborts[i].pcb
                 = m_unrefed_pcbs_list[Len(m_unrefed_pcbs_list)]
            /\ pcbs[m_unrefed_pcbs_list[Len(m_unrefed_pcbs_list)]].state # "CLOSED"

\* A state in which the PCB that was abandoned last and still has its FIN to
\* deliver is aborted although a CLOSED PCB stands before it in the list.
C39_DrainingPcbAborted ==
    /\ FreePcbListed
    /\ tcp_cb.kind = "none"
    /\ allocate_pcb(TcpNow).obs.aborts # <<>>
    /\ pcbs[allocate_pcb(TcpNow).obs.alloc].state \in {"FIN_WAIT_1", "LAST_ACK"}

\* ---------------------------------------------------------------------------
\* LinkedHeap (structure/minimum/LinkedHeap.h)
\* ---------------------------------------------------------------------------
\* The heap is a value h shaped like HeapInit. A side is 0 (link[0]) or 1
\* (link[1]); a link of a node is read with Link and written with SetLink.

Side(b) == IF b THEN 1 ELSE 0

Link(h, n, side) == h.node[n].link[side + 1]

SetLink(h, n, side, l) == [h EXCEPT !.node[n].link[side + 1] = l]

SetParent(h, n, p) == [h EXCEPT !.node[n].parent = p]

\* "ac(n).link[side] = c" followed by "ac(c).parent = n" if c is not null.
LinkChild(h, n, side, c) ==
    IF c # HeapNull THEN SetParent(SetLink(h, n, side, c), c, n)
    ELSE SetLink(h, n, side, c)

\* "ac(n).parent = p" followed by "ac(p).link[side] = n", or by "m_root = n"
\* if p is null.
LinkParent(h, n, p, side) ==
    IF p # HeapNull THEN SetLink(SetParent(h, n, p), p, side, n)
    ELSE [SetParent(h, n, p) EXCEPT !.m_root = n]

HeapFault(h) == [h EXCEPT !.heap_fault = TRUE]

\* Compare::compareEntries: negative, zero or positive.
compareEntries(h, a, b) == h.node[a].key - h.node[b].key

\* Bit i of the SizeType value x, and prev_count ^ new_count.
SizeBit(x, i) == (x \div (2 ^ i)) % 2

RECURSIVE SizeXor(_, _, _)
SizeXor(a, b, i) ==
    IF i = HeapSizeBits THEN 0
    ELSE (IF SizeBit(a, i) # SizeBit(b, i) THEN 2 ^ i ELSE 0) + SizeXor(a, b, i + 1)

\* "(x & bit) != 0" for a bit that is a power of two.
SizeAnd(x, bit) == (x \div bit) % 2

increment_count(h) ==
    [h EXCEPT !.m_count = (h.m_count + 1) % SizeTypeMod,
              !.m_level_bit = IF (h.m_count + 1) % SizeTypeMod = (2 * h.m_level_bit) % SizeTypeMod
                              THEN (2 * h.m_level_bit) % SizeTypeMod ELSE @]

decrement_count(h) ==
    [h EXCEPT !.m_count = (h.m_count - 1) % SizeTypeMod,
              !.m_level_bit = IF h.m_count = h.m_level_bit THEN @ \div 2 ELSE @]

rollover_bit(prev_count, new_count) == (SizeXor(prev_count, new_count, 0) + 1) % SizeTypeMod

fromlast_cost_bit(prev_count, new_count) ==
    (rollover_bit(prev_count, new_count) * rollover_bit(prev_count, new_count)) % SizeTypeMod

\* A variant that always goes by the cost of climbing, also when the count
\* changes levels and the sum or the product wraps.
should_walk_from_root_NoWrap(prev_count, new_count, new_level_bit) ==
    fromlast_cost_bit(prev_count, new_count) > new_level_bit

should_walk_from_root(prev_count, new_count, new_level_bit) ==
    (fromlast_cost_bit(prev_count, new_count) - 1) % SizeTypeMod >= new_level_bit

\* The loop "while (bit > stop) { bit >>= 1; cur = ac(cur).link[(new_count
\* & bit) != 0]; }" of insert (stop 2) and of remove (stop 1); HeapNull if
\* the assertion that the link is not null fails.
RECURSIVE walk_from_root(_, _, _, _, _)
walk_from_root(h, cur, bit, new_count, stop) ==
    IF bit > stop
    THEN IF Link(h, cur, SizeAnd(new_count, bit \div 2)) = HeapNull THEN HeapNull
         ELSE walk_from_root(h, Link(h, cur, SizeAnd(new_count, bit \div 2)),
                             bit \div 2, new_count, stop)
    ELSE cur

\* "while (cur == ac(parent).link[side]) { cur = parent; parent =
\* ac(cur).parent; }": the node that the climb stops under, HeapNull if the
\* climb leaves the root, where the code would read through a null parent.
RECURSIVE climb_while(_, _, _, _)
climb_while(h, cur, parent, side) ==
    IF parent = HeapNull THEN HeapNull
    ELSE IF cur = Link(h, parent, side)
         THEN climb_while(h, parent, h.node[parent].parent, side)
         ELSE parent

\* "while (!ac(cur).link[side].isNull()) cur = ac(cur).link[side];"
RECURSIVE descend(_, _, _)
descend(h, cur, side) ==
    IF Link(h, cur, side) # HeapNull THEN descend(h, Link(h, cur, side), side) ELSE cur

RECURSIVE bubble_up_node(_, _, _, _, _)
bubble_up_connect(h, node, parent, sibling, side, gparent) ==
    LinkChild(SetParent(SetLink(h, gparent, side, parent), parent, gparent),
              gparent, 1 - side, sibling)

bubble_up_end(h, node, parent, sibling, side, gparent) ==
    IF gparent # HeapNull
    THEN SetLink(SetParent(h, node, gparent), gparent,
                 Side(parent = Link(h, gparent, 1)), node)
    ELSE [SetParent(h, node, gparent) EXCEPT !.m_root = node]

bubble_up_node(h, node, parent, sibling, side) ==
    IF \/ h.node[parent].parent = HeapNull
       \/ compareEntries(h, h.node[parent].parent, node) <= 0
    THEN bubble_up_end(
             LinkChild(SetParent(SetLink(h, node, side, parent), parent, node),
                       node, 1 - side, sibling),
             node, parent, sibling, side, h.node[parent].parent)
    ELSE bubble_up_node(
             bubble_up_connect(h, node, parent, sibling, side, h.node[parent].parent),
             node, h.node[parent].parent,
             Link(h, h.node[parent].parent,
                  1 - Side(parent = Link(h, h.node[parent].parent, 1))),
             Side(parent = Link(h, h.node[parent].parent, 1)))

\* The minimum child to go down to, HeapNull if there is none or it is not
\* less than node, and its side.
minimum_child(h, child0, child1) ==
    IF child1 # HeapNull /\ compareEntries(h, child1, child0) < 0
    THEN [child |-> child1, next_side |-> 1]
    ELSE [child |-> child0, next_side |-> 0]

bubble_down_child(h, node, child0, child1) ==
    IF /\ minimum_child(h, child0, child1).child # HeapNull
       /\ compareEntries(h, minimum_child(h, child0, child1).child, node) >= 0
    THEN [minimum_child(h, child0, child1) EXCEPT !.child = HeapNull]
    ELSE minimum_child(h, child0, child1)

\* One turn of the loop past the exits: child takes the place under parent.
bubble_down_move(h, node, parent, side, m, child0, child1) ==
    LET moved == LinkChild(LinkParent(h, m.child, parent, side), m.child,
                           1 - m.next_side,
                           IF m.next_side = 1 THEN child0 ELSE child1)
    IN  IF moved.m_last = m.child THEN [moved EXCEPT !.m_last = node] ELSE moved

bubble_down_end(h, node, parent, side, child0, child1) ==
    LinkChild(LinkChild(LinkParent(h, node, parent, side), node, 0, child0),
              node, 1, child1)

bubble_down_parent(h, node, parent, side) ==
    IF side < 0 THEN h.node[node].parent ELSE parent

bubble_down_side(h, node, parent, side) ==
    IF side < 0
    THEN Side(/\ h.node[node].parent # HeapNull
              /\ node = Link(h, h.node[node].parent, 1))
    ELSE side

RECURSIVE connect_and_bubble_down_node(_, _, _, _, _, _)
connect_and_bubble_down_node(h, node, parent, side, child0, child1) ==
    LET m == bubble_down_child(h, node, child0, child1)
    IN  IF m.child = HeapNull
        THEN IF side < 0 THEN h
             ELSE bubble_down_end(h, node, parent, side, child0, child1)
        ELSE connect_and_bubble_down_node(
                 bubble_down_move(h, node, bubble_down_parent(h, node, parent, side),
                                  bubble_down_side(h, node, parent, side),
                                  m, child0, child1),
                 node, m.child, m.next_side,
                 Link(h, m.child, 0), Link(h, m.child, 1))

node_side(h, node) ==
    Side(/\ h.node[node].parent # HeapNull
         /\ node = Link(h, h.node[node].parent, 1))

\* The branch of fixup_node in which srcnode goes up: parent takes the
\* children of node before srcnode is bubbled up past it.
fixup_node_up(h, node, srcnode, parent, side) ==
    LET adopted == LinkChild(LinkChild(h, parent, 0, Link(h, node, 0)),
                             parent, 1, Link(h, node, 1))
    IN  bubble_up_node(IF adopted.m_last = srcnode
                       THEN [adopted EXCEPT !.m_last = parent] ELSE adopted,
                       srcnode, parent, Link(h, parent, 1 - side), side)

fixup_node(h, node, srcnode) ==
    IF /\ h.node[node].parent # HeapNull
       /\ compareEntries(h, srcnode, h.node[node].parent) < 0
    THEN fixup_node_up(h, node, srcnode, h.node[node].parent, node_side(h, node))
    ELSE connect_and_bubble_down_node(
             h, srcnode, h.node[node].parent,
             IF node = srcnode THEN -1 ELSE node_side(h, node),
             Link(h, node, 0), Link(h, node, 1))

\* Where insert puts the new last node: under cur on side dir. h is the heap
\* after increment_count; cur is HeapNull if an assertion fails on the way.
insert_from_last(h) ==
    LET parent == climb_while(h, h.m_last, h.node[h.m_last].parent, 1)
    IN  IF parent = HeapNull THEN [cur |-> HeapNull, dir |-> 1]
        ELSE IF Link(h, parent, 1) # HeapNull
             THEN [cur |-> descend(h, Link(h, parent, 1), 0), dir |-> 0]
             ELSE [cur |-> parent, dir |-> 1]

insert_place(h, prev_count) ==
    IF should_walk_from_root(prev_count, h.m_count, h.m_level_bit)
    THEN [cur |-> walk_from_root(h, h.m_root, h.m_level_bit, h.m_count, 2),
          dir |-> h.m_count % 2]
    ELSE insert_from_last(h)

\* Lines 170-182 of insert, from "m_last = node".
insert_last(h, child, node, child_dir) ==
    IF child_dir >= 0
    THEN bubble_up_node([h EXCEPT !.m_last = node,
                                  !.node[node].link = <<HeapNull, HeapNull>>],
                        child, node, Link(h, node, 1 - child_dir), child_dir)
    ELSE [h EXCEPT !.m_last = node, !.node[node].link = <<HeapNull, HeapNull>>]

insert_under(h, parent, dir, node) ==
    IF \/ parent = HeapNull
       \/ Link(h, parent, dir) # HeapNull
       \/ Link(h, parent, 1) # HeapNull
    THEN HeapFault(h)
    ELSE IF compareEntries(h, parent, node) <= 0
         THEN insert_last(SetParent(SetLink(h, parent, dir, node), node, parent),
                          node, node, -1)
         ELSE insert_last(h, node, parent, dir)

insert(h, node) ==
    IF h.m_root = HeapNull
    THEN insert_last([SetParent(h, node, HeapNull) EXCEPT !.m_root = node,
                                                         !.m_count = 1,
                                                         !.m_level_bit = 1],
                     node, node, -1)
    ELSE IF ~(h.m_count > 0 /\ h.m_count < SizeTypeMax) THEN HeapFault(h)
         ELSE insert_under(increment_count(h),
                           insert_place(increment_count(h), h.m_count).cur,
                           insert_place(increment_count(h), h.m_count).dir, node)

\* Where remove finds the new last node. h is the heap after
\* decrement_count; the result is the heap with the old last node unlinked
\* from its parent and the new last node cur, HeapNull if an assertion fails.
unlink_last(h) ==
    SetLink(h, h.node[h.m_last].parent, node_side(h, h.m_last), HeapNull)

remove_from_last(h) ==
    IF h.node[h.m_last].parent = HeapNull THEN HeapNull
    ELSE IF node_side(h, h.m_last) = 1
         THEN LET cur == Link(h, h.node[h.m_last].parent, 0)
              IN  IF cur = HeapNull THEN HeapNull
                  ELSE IF Link(h, cur, 0) # HeapNull \/ Link(h, cur, 1) # HeapNull
                       THEN HeapNull ELSE cur
         ELSE LET parent == climb_while(h, h.node[h.m_last].parent,
                                        h.node[h.node[h.m_last].parent].parent, 0)
              IN  IF parent = HeapNull THEN HeapNull
                  ELSE IF Link(h, parent, 0) = HeapNull THEN HeapNull
                  ELSE IF Link(h, Link(h, parent, 0), 1) = HeapNull THEN HeapNull
                  ELSE descend(h, Link(h, parent, 0), 1)

remove_place(h, prev_count) ==
    IF should_walk_from_root(prev_count, h.m_count, h.m_level_bit)
    THEN walk_from_root(unlink_last(h), h.m_root, h.m_level_bit, h.m_count, 1)
    ELSE remove_from_last(h)

\* Lines 247-255 of remove.
remove_last(h, node, cur) ==
    IF cur = HeapNull THEN HeapFault(h)
    ELSE IF node # h.m_last
         THEN fixup_node(IF node # cur THEN [h EXCEPT !.m_last = cur] ELSE h,
                         node, h.m_last)
         ELSE IF node # cur THEN [h EXCEPT !.m_last = cur] ELSE h

remove(h, node) ==
    IF h.m_root = HeapNull \/ ~(h.m_count > 0) THEN HeapFault(h)
    ELSE IF h.m_count = 1 THEN [h EXCEPT !.m_root = HeapNull]
    ELSE remove_last(unlink_last(decrement_count(h)), node,
                     remove_place(decrement_count(h), h.m_count))

fixup(h, node) ==
    IF h.m_root = HeapNull \/ ~(h.m_count > 0) THEN HeapFault(h)
    ELSE IF h.m_count # 1 THEN fixup_node(h, node, node)
    ELSE h

first(h) == h.m_root

\* verifyHeap, with AssertData as a record; ok is FALSE once one of its
\* assertions has failed. level has no value before state leaves NoDepth.
assert_leaf(h, n) ==
    Link(h, n, 0) = HeapNull /\ Link(h, n, 1) = HeapNull

assert_last_level(h, n, ad) ==
    IF ad.state = "Lowest"
    THEN IF Link(h, n, 0) = HeapNull
         THEN [ad EXCEPT !.state = "LowestEnd",
                         !.ok = Link(h, n, 1) = HeapNull /\ ad.prev_leaf = h.m_last]
         ELSE IF Link(h, n, 1) = HeapNull
              THEN [ad EXCEPT !.state = "LowestEnd", !.ok = ad.prev_leaf = h.m_last]
              ELSE ad
    ELSE [ad EXCEPT !.ok = assert_leaf(h, n)]

assert_levels(h, n, ad, level) ==
    IF ~ad.ok THEN ad
    ELSE IF ad.state \notin {"Lowest", "LowestEnd"} THEN [ad EXCEPT !.ok = FALSE]
    ELSE IF level < ad.level - 1
         THEN [ad EXCEPT !.ok = Link(h, n, 0) # HeapNull /\ Link(h, n, 1) # HeapNull]
    ELSE IF level = ad.level - 1 THEN assert_last_level(h, n, ad)
    ELSE IF level = ad.level
         THEN IF ad.state = "Lowest" /\ assert_leaf(h, n)
              THEN [ad EXCEPT !.prev_leaf = n] ELSE [ad EXCEPT !.ok = FALSE]
    ELSE [ad EXCEPT !.ok = FALSE]

RECURSIVE assert_recurser(_, _, _, _)
assert_child(h, n, side, ad, level) ==
    IF ~ad.ok \/ Link(h, n, side) = HeapNull THEN ad
    ELSE IF /\ compareEntries(h, n, Link(h, n, side)) <= 0
            /\ h.node[Link(h, n, side)].parent = n
         THEN assert_recurser(h, Link(h, n, side), ad, level + 1)
         ELSE [ad EXCEPT !.ok = FALSE]

assert_recurser(h, n, ad, level) ==
    IF assert_leaf(h, n)
    THEN assert_levels(h, n,
                       IF ad.state = "NoDepth"
                       THEN [ad EXCEPT !.count = (@ + 1) % SizeTypeMod,
                                       !.state = "Lowest", !.level = level]
                       ELSE [ad EXCEPT !.count = (@ + 1) % SizeTypeMod],
                       level)
    ELSE assert_levels(h, n,
                       assert_child(h, n, 1,
                           assert_child(h, n, 0,
                               [ad EXCEPT !.count = (@ + 1) % SizeTypeMod],
                               level),
                           level),
                       level)

RECURSIVE count_bits(_)
count_bits(x) == IF x > 0 THEN 1 + count_bits(x \div 2) ELSE 0

verifyHeap(h) ==
    \/ h.m_root = HeapNull
    \/ /\ h.m_last # HeapNull
       /\ h.node[h.m_root].parent = HeapNull
       /\ LET ad == assert_recurser(h, h.m_root,
                                    [state |-> "NoDepth", level |-> 0,
                                     prev_leaf |-> HeapNull, count |-> 0,
                                     ok |-> TRUE], 0)
          IN  /\ ad.ok
              /\ ad.prev_leaf = h.m_last
              /\ ad.count = h.m_count
       /\ h.m_level_bit = 2 ^ (count_bits(h.m_count) - 1)

\* The application's calls. An entry is put into the heap with its key set;
\* the key of an entry in the heap changes only right before fixup is called
\* for it; an entry taken out is forgotten.
HeapStep(h) ==
    /\ heap' = h
    /\ UNCHANGED <<pcbs, cons, m_listener, m_unrefed_pcbs_list, m_pcb_index_active,
                   m_pcb_index_timewait, m_current_pcb, m_next_ephemeral_port,
                   tcp_cb, tcp_fault, unref_age, abrt_after, cc, lq, snd>>
    /\ UNCHANGED reass_vars

HeapInsert(n, key) ==
    /\ n \notin heap.in_heap
    /\ heap.m_root = HeapNull \/ heap.m_count < SizeTypeMax
    /\ \/ heap.in_heap \cap HeapBulk = {}
       \/ HeapBulk \subseteq heap.in_heap /\ n <= MaxHeapOnBulk
    /\ HeapStep(insert([heap EXCEPT !.node[n].key = key,
                                    !.in_heap = @ \cup {n},
                                    !.last_op = "insert"], n))

HeapRemove(n) ==
    /\ n \in heap.in_heap
    /\ HeapStep([remove([heap EXCEPT !.last_op = "remove"], n)
                     EXCEPT !.node[n] = NodeOutside, !.in_heap = @ \ {n}])

HeapFixup(n, key) ==
    /\ n \in heap.in_heap
    /\ key # heap.node[n].key
    /\ HeapStep(fixup([heap EXCEPT !.node[n].key = key, !.last_op = "fixup"], n))

\* The next entry of HeapBulk is put in, or the one put in last taken out.
HeapPutBulk(n) ==
    /\ heap.in_heap = {m \in HeapBulk : m < n}
    /\ HeapStep(insert([heap EXCEPT !.node[n].key = HeapBulkKey,
                                    !.in_heap = @ \cup {n},
                                    !.last_op = "insert"], n))

HeapTakeBulk(n) ==
    /\ heap.in_heap = {m \in HeapBulk : m <= n}
    /\ HeapStep([remove([heap EXCEPT !.last_op = "remove"], n)
                     EXCEPT !.node[n] = NodeOutside, !.in_heap = @ \ {n}])

NextHeap ==
    \/ \E n \in HeapFreeNodes, key \in HeapKeys : HeapInsert(n, key)
    \/ \E n \in HeapFreeNodes : HeapRemove(n)
    \/ \E n \in HeapFreeNodes, key \in HeapKeys : HeapFixup(n, key)
    \/ \E n \in HeapBulk : HeapPutBulk(n)
    \/ \E n \in HeapBulk : HeapTakeBulk(n)

SpecHeap == Init /\ [][NextHeap]_vars

\* The node at position i of the heap, counting the root as 1 and the
\* children of position i as 2i and 2i + 1; HeapNull where the links end.
RECURSIVE HeapAt(_, _)
HeapAt(h, i) ==
    IF i = 1 THEN h.m_root
    ELSE IF HeapAt(h, i \div 2) \in HeapNodes
         THEN Link(h, HeapAt(h, i \div 2), i % 2)
         ELSE HeapNull

HeapSize(h) == Cardinality(h.in_heap)

\* The n entries of the heap are at the positions 1..n and nothing else is
\* linked: all levels but the last are full, the last is filled from the left.
HeapComplete(h) ==
    /\ \A i \in 1..(2 * HeapSize(h) + 1) :
           IF i <= HeapSize(h) THEN HeapAt(h, i) \in h.in_heap
           ELSE HeapAt(h, i) = HeapNull
    /\ {HeapAt(h, i) : i \in 1..HeapSize(h)} = h.in_heap

HeapLinksConsistent(h) ==
    \A i \in 1..HeapSize(h) :
        h.node[HeapAt(h, i)].parent = IF i = 1 THEN HeapNull ELSE HeapAt(h, i \div 2)

HeapOrdered(h) ==
    \A i \in 2..HeapSize(h) :
        compareEntries(h, HeapAt(h, i \div 2), HeapAt(h, i)) <= 0

HeapCounted(h) ==
    /\ h.m_last = HeapAt(h, HeapSize(h))
    /\ h.m_count = HeapSize(h)
    /\ \E b \in 0..(HeapSizeBits - 1) :
           /\ h.m_level_bit = 2 ^ b
           /\ 2 ^ b <= h.m_count
           /\ h.m_count < 2 ^ (b + 1)

FirstIsMinimum(h) ==
    IF h.in_heap = {} THEN first(h) = HeapNull
    ELSE /\ first(h) \in h.in_heap
         /\ \A n \in h.in_heap : compareEntries(h, first(h), n) <= 0

\* C40: after any sequence of insert, remove and fixup calls, each fixup
\* preceded by the key change it repairs, no assertion of the code has
\* failed, the entries form a complete binary tree in which every parent
\* compares <= its children and parent and child links agree, first()
\* returns an entry that no entry compares less than (null for the empty
\* heap), verifyHeap passes, and, while the heap is not empty, m_last is the
\* rightmost node of the last level, m_count is the number of nodes and
\* m_level_bit is the largest power of two <= m_count.
C40_HeapValid ==
    /\ ~heap.heap_fault
    /\ HeapComplete(heap)
    /\ HeapLinksConsistent(heap)
    /\ HeapOrdered(heap)
    /\ FirstIsMinimum(heap)
    /\ verifyHeap(heap)
    /\ heap.in_heap # {} => HeapCounted(heap)

\* C40 witness: the call made last was an insert into a heap that holds
\* all of HeapBulk; it found the place of the new last node by climbing from
\* the old one past more than one level, and an entry of HeapFreeNodes that
\* compares less than the others has become the root.
C40_Witness ==
    /\ heap.last_op = "insert"
    /\ HeapBulk \subseteq heap.in_heap
    /\ ~should_walk_from_root(heap.m_count - 1, heap.m_count, heap.m_level_bit)
    /\ SizeXor(heap.m_count - 1, heap.m_count, 0) > 1
    /\ first(heap) \in HeapFreeNodes
    /\ heap.node[first(heap)].key < HeapBulkKey

\* C40 witness of the other calls: a fixup has moved an entry whose key was
\* raised down to the last place of a heap of MaxHeapNodes entries, and a
\* remove has taken an entry out of a heap that holds all of HeapBulk.
C40_FixupMovedDown ==
    /\ heap.last_op = "fixup"
    /\ HeapSize(heap) = MaxHeapNodes
    /\ heap.node[heap.m_last].key = MaxHeapKey
    /\ heap.node[HeapAt(heap, 2)].key > heap.node[HeapAt(heap, 3)].key
    /\ heap.node[first(heap)].key = 0

C40_RemovedFromDeepHeap ==
    /\ heap.last_op = "remove"
    /\ HeapBulk \subseteq heap.in_heap
    /\ HeapSize(heap) = HeapBulkNodes + 1
    /\ first(heap) \in HeapFreeNodes

\* C40 as stated, for m_count: it is the number of nodes whenever it has a
\* value. It fails once the only entry has been removed: remove sets m_root
\* to null and leaves m_count at 1.
C40_CountIsNumberOfNodes ==
    heap.m_count # HeapUndefined => heap.m_count = HeapSize(heap)

====
